---------------------------- MODULE Spec2Model ----------------------------
(***************************************************************************)
(* Model of the LIE post-processing pipeline of richardloopez/Graphics:    *)
(*   - LIE_Aggregation_AND_Plotter.py: the boolean filename query, the     *)
(*     descriptive label, the group aggregator with its header rewrite and *)
(*     the header reader;                                                  *)
(*   - LIE_Agrgegator_AND_Plotter/prestep2_lie_to_csv_and_etotal.py: the   *)
(*     raw-to-table converter and the per-file statistics writer.          *)
(*                                                                         *)
(* Strings are sequences of one-character strings, so that lower(),        *)
(* substring search, join, split, strip, re.sub and number formatting are  *)
(* computed character by character as the Python code computes them.       *)
(***************************************************************************)
EXTENDS Integers, Sequences, FiniteSets, TLC

(***************************************************************************)
(* Characters and Python string primitives                                 *)
(***************************************************************************)
UpperChars == <<"A","B","C","D","E","F","G","H","I","J","K","L","M",
                "N","O","P","Q","R","S","T","U","V","W","X","Y","Z">>

LowerChars == <<"a","b","c","d","e","f","g","h","i","j","k","l","m",
                "n","o","p","q","r","s","t","u","v","w","x","y","z">>

DigitChars == <<"0","1","2","3","4","5","6","7","8","9">>

Range(s) == {s[i] : i \in DOMAIN s}

\* str.lower() on one character
LowerChar(c) ==
    IF \E i \in DOMAIN UpperChars : UpperChars[i] = c
    THEN LowerChars[CHOOSE i \in DOMAIN UpperChars : UpperChars[i] = c]
    ELSE c

\* str.lower()
Lower(s) == [i \in DOMAIN s |-> LowerChar(s[i])]

\* the Python test `t in s` on strings
Contains(s, t) ==
    \E off \in 0..(Len(s) - Len(t)) : SubSeq(s, off + 1, off + Len(t)) = t

\* str.startswith
StartsWith(s, p) == Len(p) <= Len(s) /\ SubSeq(s, 1, Len(p)) = p

\* sep.join(xs)
RECURSIVE Join(_, _)
Join(sep, xs) ==
    IF xs = <<>> THEN <<>>
    ELSE IF Len(xs) = 1 THEN xs[1]
    ELSE xs[1] \o sep \o Join(sep, Tail(xs))

\* xs[:n]
Take(xs, n) == SubSeq(xs, 1, IF Len(xs) < n THEN Len(xs) ELSE n)

\* str(n) for a natural number
RECURSIVE NatToStr(_)
NatToStr(n) ==
    IF n < 10 THEN <<DigitChars[n + 1]>>
    ELSE NatToStr(n \div 10) \o <<DigitChars[(n % 10) + 1]>>

\* the class [\w\-] of re.sub at line 65 (ASCII letters, digits, underscore, hyphen)
IsWordOrHyphen(c) ==
    c \in Range(UpperChars) \cup Range(LowerChars) \cup Range(DigitChars) \cup {"_", "-"}

(***************************************************************************)
(* get_descriptive_name (lines 42-67)                                      *)
(***************************************************************************)
\* line 53-55: one alternative group, f"OR{i+1}-" + "_".join(group[:2]) (+ "_etc")
OrGroupStr(i, group) ==
    <<"O","R">> \o NatToStr(i) \o <<"-">> \o Join(<<"_">>, Take(group, 2))
        \o (IF Len(group) > 2 THEN <<"_","e","t","c">> ELSE <<>>)

\* lines 59-62: the parts appended for the NOT list
NotPartsFirstTwo(not_list) ==
    IF not_list = <<>> THEN <<>>
    ELSE <<(<<"N","O","T","-">> \o Join(<<"_">>, Take(not_list, 2)))>>
         \o (IF Len(not_list) > 2 THEN << <<"_","e","t","c">> >> ELSE <<>>)

NotParts(not_list) ==
    IF not_list = <<>> THEN <<>>
    ELSE <<(<<"N","O","T","-">> \o Join(<<"_">>, Take(not_list, 3)))>>
         \o (IF Len(not_list) > 3 THEN << <<"_","e","t","c">> >> ELSE <<>>)

\* line 65: re.sub(r'[^\w\-]', '_', base_name)
SanitizeNothing(s) == s

Sanitize(s) == [i \in DOMAIN s |-> IF IsWordOrHyphen(s[i]) THEN s[i] ELSE "_"]

get_descriptive_name(config) ==
    LET and_parts == IF config.AND # <<>>
                     THEN << <<"A","N","D","-">> \o Join(<<"_">>, config.AND) >>
                     ELSE <<>>
        or_names  == [i \in DOMAIN config.OR_GROUPS |-> OrGroupStr(i, config.OR_GROUPS[i])]
        or_parts  == IF config.OR_GROUPS # <<>>
                     THEN << Join(<<"_">>, or_names) >>
                     ELSE <<>>
        parts     == and_parts \o or_parts \o NotParts(config.NOT)
        base_name == Sanitize(Join(<<"_">>, parts))
    IN  IF base_name # <<>> THEN base_name
        ELSE <<"E","m","p","t","y","_","Q","u","e","r","y">>

(***************************************************************************)
(* matches_boolean_query (lines 70-88)                                     *)
(***************************************************************************)
\* line 75: name_lower = filename.lower()
NameAsIs(filename) == filename

NameLower(filename) == Lower(filename)

\* line 81: any(k.lower() in name_lower for k in group)
GroupMatched(name_lower, group) ==
    \E k \in DOMAIN group : Contains(name_lower, Lower(group[k]))

\* lines 78-84: the loop over OR_GROUPS, left at the first unmatched group
RECURSIVE OrGroupsCondition(_, _, _)
OrGroupsCondition(name_lower, groups, i) ==
    IF i > Len(groups) THEN TRUE
    ELSE IF ~GroupMatched(name_lower, groups[i]) THEN FALSE
    ELSE OrGroupsCondition(name_lower, groups, i + 1)

matches_boolean_query(filename, config) ==
    LET name_lower == NameLower(filename)
        and_condition == \A k \in DOMAIN config.AND :
                            Contains(name_lower, Lower(config.AND[k]))
        or_groups_condition == IF config.OR_GROUPS # <<>>
                               THEN OrGroupsCondition(name_lower, config.OR_GROUPS, 1)
                               ELSE TRUE
        not_condition == ~(\E k \in DOMAIN config.NOT :
                            Contains(name_lower, Lower(config.NOT[k])))
    IN  and_condition /\ or_groups_condition /\ not_condition


(***************************************************************************)
(* Files.  A file is a sequence of lines; a line is a record               *)
(*   [k |-> "text", s |-> <characters>]  a free-text line (a '#' comment), *)
(*   [k |-> "cols", s |-> <column names>] the column header row of a table,*)
(*   [k |-> "row",  s |-> <values>]       a data row,                      *)
(* and eol is the line terminator that was written ("LF" or "CRLF").       *)
(* Numbers are integers counting tenths (-25 is -2.5); NaN, the missing    *)
(* value, is an integer no computation of the model produces.  A formatted *)
(* statistic counts ten-thousandths (4 decimals).                          *)
(***************************************************************************)
NaN == 999999999

TextLine(chars, eol) == [k |-> "text", s |-> chars, eol |-> eol]

ColsLine(cols, eol) == [k |-> "cols", s |-> cols, eol |-> eol]

RowLine(vals, eol) == [k |-> "row", s |-> vals, eol |-> eol]

\* what a line says, whatever its terminator
Body(line) == [k |-> line.k, s |-> line.s]

Bodies(lines) == [i \in DOMAIN lines |-> Body(lines[i])]

\* the file system after path is (re)written with content
WriteFile(files, path, content) ==
    [p \in DOMAIN files \cup {path} |-> IF p = path THEN content ELSE files[p]]

\* the file system after os.replace(src, dst)
ReplaceFile(files, src, dst) ==
    IF src \notin DOMAIN files THEN files
    ELSE
    [p \in (DOMAIN files \cup {dst}) \ {src} |-> IF p = dst THEN files[src] ELSE files[p]]

\* os.path.splitext(path)[0]: the path up to its last dot
SplitExtBase(path) ==
    IF \E i \in DOMAIN path : path[i] = "."
    THEN LET last == CHOOSE i \in DOMAIN path :
                        path[i] = "." /\ \A j \in (i + 1)..Len(path) : path[j] # "."
         IN  SubSeq(path, 1, last - 1)
    ELSE path

EndsWith(s, p) == Len(p) <= Len(s) /\ SubSeq(s, Len(s) - Len(p) + 1, Len(s)) = p

DotCsv == <<".","c","s","v">>

DotDat == <<".","d","a","t">>

DotTmp == <<".","t","m","p">>

\* the order on strings used to list a directory (by length, then by character rank)
CharOrder == <<"_", "-", ".">> \o DigitChars \o UpperChars \o LowerChars

CharRank(c) == CHOOSE i \in DOMAIN CharOrder : CharOrder[i] = c

StrLess(a, b) ==
    IF Len(a) # Len(b) THEN Len(a) < Len(b)
    ELSE \E i \in DOMAIN a :
            /\ \A j \in 1..(i - 1) : a[j] = b[j]
            /\ a[i] # b[i]
            /\ CharRank(a[i]) < CharRank(b[i])

\* the sequences that list the set S once each
RECURSIVE SortedSeq(_)
SortedSeq(S) ==
    IF S = {} THEN <<>>
    ELSE LET m == CHOOSE x \in S : \A y \in S \ {x} : StrLess(x, y)
         IN  <<m>> \o SortedSeq(S \ {m})

Reverse(s) == [i \in DOMAIN s |-> s[Len(s) + 1 - i]]

\* glob.glob(os.path.join(folder_path, "*" + ext)): the listing order is the
\* host's; the model lets the directory list in either direction
GlobSet(files, ext) ==
    {p \in DOMAIN files : EndsWith(p, ext) /\ Len(p) > Len(ext) /\ p[1] # "."}

GlobListings(files, ext) ==
    {SortedSeq(GlobSet(files, ext)), Reverse(SortedSeq(GlobSet(files, ext)))}

(***************************************************************************)
(* pandas: DataFrame, read_csv, to_csv, concat, mean, std                  *)
(***************************************************************************)
EELEC_COL == "LIE_00001[EELEC]"

EVDW_COL == "LIE_00001[EVDW]"

ETOTAL_COL == "[ETOTAL]"

DataFrame(cols, rows) == [columns |-> cols, rows |-> rows]

\* number of comma-separated fields of a line
FieldCount(line) ==
    IF line.k = "text"
    THEN 1 + Cardinality({i \in DOMAIN line.s : line.s[i] = ","})
    ELSE Len(line.s)

MaxFieldCount(lines, n) ==
    CHOOSE m \in {FieldCount(lines[i]) : i \in 1..n} :
        \A i \in 1..n : FieldCount(lines[i]) <= m

\* pd.read_csv(f) raises: no line at all (EmptyDataError), or from the third
\* line on a line with more fields than every line before it (ParserError)
ReadCsvRaises(lines) ==
    \/ lines = <<>>
    \/ \E i \in 3..Len(lines) : FieldCount(lines[i]) > MaxFieldCount(lines, i - 1)

\* pd.read_csv(f): the first line names the columns, the others are the rows
ReadCsv(lines) ==
    IF lines[1].k = "cols"
    THEN DataFrame(lines[1].s, [i \in 1..(Len(lines) - 1) |-> lines[i + 1].s])
    ELSE DataFrame(<<"#">>, [i \in 1..(Len(lines) - 1) |-> <<NaN>>])

\* df.to_csv(path, index=False): the column header row, then the rows
ToCsvLines(df) ==
    <<ColsLine(df.columns, "LF")>> \o [i \in DOMAIN df.rows |-> RowLine(df.rows[i], "LF")]

ColIndex(df, col) == CHOOSE i \in DOMAIN df.columns : df.columns[i] = col

HasCol(df, col) == \E i \in DOMAIN df.columns : df.columns[i] = col

\* df[col]
Column(df, col) == [i \in DOMAIN df.rows |-> df.rows[i][ColIndex(df, col)]]

\* pd.concat(dataframes, ignore_index=True): union of the columns in order of
\* first appearance, rows in list order, NaN where a frame lacks a column
RECURSIVE ConcatColumns(_)
ConcatColumns(frames) ==
    IF frames = <<>> THEN <<>>
    ELSE LET rest == ConcatColumns(SubSeq(frames, 1, Len(frames) - 1))
             last == frames[Len(frames)].columns
         IN  rest \o SelectSeq(last, LAMBDA c : ~(\E i \in DOMAIN rest : rest[i] = c))

RECURSIVE ConcatRows(_, _)
ConcatRows(frames, cols) ==
    IF frames = <<>> THEN <<>>
    ELSE LET f == frames[1]
         IN  [i \in DOMAIN f.rows |->
                [j \in DOMAIN cols |->
                    IF HasCol(f, cols[j]) THEN f.rows[i][ColIndex(f, cols[j])] ELSE NaN]]
             \o ConcatRows(Tail(frames), cols)

Concat(frames) == DataFrame(ConcatColumns(frames), ConcatRows(frames, ConcatColumns(frames)))

RECURSIVE SumSeq(_)
SumSeq(xs) == IF xs = <<>> THEN 0 ELSE xs[1] + SumSeq(Tail(xs))

Numeric(xs) == SelectSeq(xs, LAMBDA v : v # NaN)

\* a / b rounded to the nearest integer, ties to even (b > 0)
RoundDiv(a, b) ==
    LET q == a \div b
        r == a % b
    IN  IF 2 * r < b THEN q
        ELSE IF 2 * r > b THEN q + 1
        ELSE IF q % 2 = 0 THEN q ELSE q + 1

\* the largest r in lo..hi with r * r <= n
RECURSIVE FloorSqrt(_, _, _)
FloorSqrt(n, lo, hi) ==
    IF lo >= hi THEN lo
    ELSE LET mid == (lo + hi + 1) \div 2
         IN  IF mid * mid <= n THEN FloorSqrt(n, mid, hi) ELSE FloorSqrt(n, lo, mid - 1)

\* sqrt(a / b) rounded to the nearest integer
RoundSqrt(a, b) ==
    LET fq == a \div b
        rem == a % b
        r == FloorSqrt(fq, 0, 46340)
    IN  IF fq > r * r + r \/ (fq = r * r + r /\ 4 * rem >= b) THEN r + 1 ELSE r

\* Series.mean() (NaN skipped) as formatted by :.4f: ten-thousandths
Mean4(xs) ==
    LET v == Numeric(xs)
    IN  IF v = <<>> THEN NaN ELSE RoundDiv(SumSeq(v) * 1000, Len(v))

\* Series.std() (NaN skipped, n-1 divisor) as formatted by :.4f
Std4Population(xs) ==
    LET v == Numeric(xs)
        n == Len(v)
        a == n * SumSeq([i \in DOMAIN v |-> v[i] * v[i]]) - SumSeq(v) * SumSeq(v)
    IN  IF n < 1 THEN NaN ELSE RoundSqrt(a * 1000000, n * n)

Std4(xs) ==
    LET v == Numeric(xs)
        n == Len(v)
        a == n * SumSeq([i \in DOMAIN v |-> v[i] * v[i]]) - SumSeq(v) * SumSeq(v)
    IN  IF n < 2 THEN NaN ELSE RoundSqrt(a * 1000000, n * (n - 1))

\* f"{value:.4f}"
PadFour(n) ==
    (IF n < 1000 THEN <<"0">> ELSE <<>>) \o (IF n < 100 THEN <<"0">> ELSE <<>>)
        \o (IF n < 10 THEN <<"0">> ELSE <<>>) \o NatToStr(n)

Fmt4NoPad(t) ==
    IF t = NaN THEN <<"n","a","n">>
    ELSE LET a == IF t < 0 THEN -t ELSE t
         IN  (IF t < 0 THEN <<"-">> ELSE <<>>) \o NatToStr(a \div 10000) \o <<".">>
                \o NatToStr(a % 10000)

Fmt4(t) ==
    IF t = NaN THEN <<"n","a","n">>
    ELSE LET a == IF t < 0 THEN -t ELSE t
         IN  (IF t < 0 THEN <<"-">> ELSE <<>>) \o NatToStr(a \div 10000) \o <<".">>
                \o PadFour(a % 10000)

(***************************************************************************)
(* More string primitives: strip, replace, split, float()                  *)
(***************************************************************************)
\* str.strip()
Strip(s) ==
    IF \A i \in DOMAIN s : s[i] = " " THEN <<>>
    ELSE LET first == CHOOSE i \in DOMAIN s : s[i] # " " /\ \A j \in 1..(i - 1) : s[j] = " "
             last  == CHOOSE i \in DOMAIN s : s[i] # " " /\ \A j \in (i + 1)..Len(s) : s[j] = " "
         IN  SubSeq(s, first, last)

\* the first place at or after from where sep occurs in s, 0 when there is none
NextMatch(s, sep, from) ==
    LET at == {i \in from..(Len(s) - Len(sep) + 1) : SubSeq(s, i, i + Len(sep) - 1) = sep}
    IN  IF at = {} THEN 0 ELSE CHOOSE i \in at : \A j \in at : i <= j

\* str.split(sep), sep not empty: the occurrences are taken from the left
RECURSIVE SplitFrom(_, _, _)
SplitFrom(s, sep, from) ==
    LET i == NextMatch(s, sep, from)
    IN  IF i = 0 THEN <<SubSeq(s, from, Len(s))>>
        ELSE <<SubSeq(s, from, i - 1)>> \o SplitFrom(s, sep, i + Len(sep))

Split(s, sep) == SplitFrom(s, sep, 1)

\* str.replace(old, new), old not empty
Replace(s, old, new) == Join(new, Split(s, old))

IsDigits(s) == \A i \in DOMAIN s : s[i] \in Range(DigitChars)

DigitValue(c) == (CHOOSE i \in DOMAIN DigitChars : DigitChars[i] = c) - 1

RECURSIVE StrToNat(_)
StrToNat(s) ==
    IF s = <<>> THEN 0
    ELSE StrToNat(SubSeq(s, 1, Len(s) - 1)) * 10 + DigitValue(s[Len(s)])

RECURSIVE Pow10(_)
Pow10(n) == IF n = 0 THEN 1 ELSE 10 * Pow10(n - 1)

\* float(text): [ok |-> FALSE] is ValueError; the value counts ten-thousandths
ParseFloat(text) ==
    LET neg   == text # <<>> /\ text[1] = "-"
        body  == IF text # <<>> /\ text[1] \in {"-", "+"} THEN Tail(text) ELSE text
        parts == Split(body, <<".">>)
        ip    == parts[1]
        fp    == IF Len(parts) = 2 THEN parts[2] ELSE <<>>
        frac  == IF Len(fp) <= 4 THEN StrToNat(fp) * Pow10(4 - Len(fp))
                 ELSE RoundDiv(StrToNat(fp), Pow10(Len(fp) - 4))
        mag   == StrToNat(ip) * 10000 + frac
    IN  IF Lower(body) = <<"n","a","n">> THEN [ok |-> TRUE, v |-> NaN]
        ELSE IF Len(parts) <= 2 /\ IsDigits(ip) /\ IsDigits(fp) /\ ip \o fp # <<>>
             THEN [ok |-> TRUE, v |-> IF neg THEN -mag ELSE mag]
        ELSE [ok |-> FALSE, v |-> 0]

(***************************************************************************)
(* The statistics header: the writers                                      *)
(***************************************************************************)
Dashes == <<"#">> \o [i \in 1..38 |-> "-"]

EELEC == <<"[","E","E","L","E","C","]">>

EVDW == <<"[","E","V","D","W","]">>

ETOTAL == <<"[","E","T","O","T","A","L","]">>

\* cols_analysis: the table's column, the short column name, the short label
cols_analysis ==
    << [df_col |-> EELEC_COL,  short_col |-> "[EELEC]",  short_name |-> EELEC],
       [df_col |-> EVDW_COL,   short_col |-> "[EVDW]",   short_name |-> EVDW],
       [df_col |-> ETOTAL_COL, short_col |-> ETOTAL_COL, short_name |-> ETOTAL] >>

\* one statistic of the results list: [label, f"{value:.4f}"]
Result(label, value4) == <<label, Fmt4(value4)>>

\* the column whose statistics the aggregator takes for one cols_analysis entry
\* (lines 202-215), "" when the table has neither name
AggStatColumn(df, ca) ==
    IF HasCol(df, ca.df_col) THEN ca.df_col
    ELSE IF HasCol(df, ca.short_col) THEN ca.short_col
    ELSE ""

\* lines 199-215: results of the aggregator (labels ' Media' and ' Std')
RECURSIVE AggResultsFrom(_, _)
AggResultsFrom(df, i) ==
    IF i > Len(cols_analysis) THEN <<>>
    ELSE LET ca  == cols_analysis[i]
             col == AggStatColumn(df, ca)
         IN  (IF col # ""
              THEN << Result(ca.short_name \o <<" ","M","e","d","i","a">>, Mean4(Column(df, col))),
                      Result(ca.short_name \o <<" ","S","t","d">>, Std4(Column(df, col))) >>
              ELSE <<>>)
             \o AggResultsFrom(df, i + 1)

AggResults(df) == AggResultsFrom(df, 1)

\* lines 147-161: results of the per-file writer (labels ' Mean' and ' Std')
RECURSIVE FileResultsFrom(_, _)
FileResultsFrom(df, i) ==
    IF i > Len(cols_analysis) THEN <<>>
    ELSE LET ca == cols_analysis[i]
         IN  (IF HasCol(df, ca.df_col)
              THEN << Result(ca.short_name \o <<" ","M","e","a","n">>, Mean4(Column(df, ca.df_col))),
                      Result(ca.short_name \o <<" ","S","t","d">>, Std4(Column(df, ca.df_col))) >>
              ELSE <<>>)
             \o FileResultsFrom(df, i + 1)

FileResults(df) == FileResultsFrom(df, 1)

\* lines 244-252: "# STATS: " + " | ".join(f"{english_label} = {value}")
StatsLineComma(res) ==
    <<"#"," ","S","T","A","T","S",":"," ">> \o Join(<<",">>,
        [i \in DOMAIN res |->
            Replace(Replace(res[i][1], <<" ","M","e","d","i","a">>, <<" ","M","e","a","n">>), <<" ","S","t","d">>, <<" ","S","t","d">>)
                \o <<" ","="," ">> \o res[i][2]])

StatsLine(res) ==
    <<"#"," ","S","T","A","T","S",":"," ">> \o Join(<<" ","|"," ">>,
        [i \in DOMAIN res |->
            Replace(Replace(res[i][1], <<" ","M","e","d","i","a">>, <<" ","M","e","a","n">>), <<" ","S","t","d">>, <<" ","S","t","d">>)
                \o <<" ","="," ">> \o res[i][2]])

\* lines 230-235: the criteria of the header
CriteriaLine(config) ==
    LET and_str == <<"A","N","D",":"," ","(">> \o Join(<<","," ">>, config.AND) \o <<")">>
        not_str == <<"N","O","T",":"," ","(">> \o Join(<<","," ">>, config.NOT) \o <<")">>
        or_str_parts == [i \in DOMAIN config.OR_GROUPS |->
                            <<"(">> \o Join(<<" ","O","R"," ">>, config.OR_GROUPS[i]) \o <<")">>]
        or_str  == <<"O","R"," ","G","R","O","U","P","S",":"," ">> \o Join(<<" ","A","N","D"," ">>, or_str_parts)
    IN  <<"#"," ","A","p","p","l","i","e","d"," ","C","r","i","t","e","r","i","a",":"," ">> \o and_str \o <<" ","|"," ">> \o or_str \o <<" ","|"," ">> \o not_str

\* lines 238-254 and 262-263: the header lines of an Aggregated Table, each
\* written as line + '\n'
AggHeaderLines(config, res) ==
    << TextLine(<<"#"," ","G","R","O","U","P",":"," ">> \o config.NAME, "LF"),
       TextLine(CriteriaLine(config), "LF"),
       TextLine(Dashes, "LF"),
       TextLine(StatsLine(res), "LF"),
       TextLine(Dashes, "LF") >>

\* csv.writer(outfile).writerow(fields) for text fields: joined by commas and
\* ended by '\r\n' (a field holding a comma is quoted)
CsvField(f) == IF \E i \in DOMAIN f : f[i] = "," THEN <<"\"">> \o f \o <<"\"">> ELSE f

CsvWriteRow(fields) ==
    TextLine(Join(<<",">>, [i \in DOMAIN fields |-> CsvField(fields[i])]), "CRLF")

\* lines 169-180 and 192-193: the header rows of a per-file table
FileHeaderLines(file_name, res) ==
    << CsvWriteRow(<< <<"#"," ","L","I","E"," ","S","T","A","T","I","S","T","I","C","S"," ","-"," ">> \o file_name >>),
       CsvWriteRow(<< Dashes >>),
       CsvWriteRow(<< <<"#"," ","M","E","T","A","D","A","T","A",":">> >> \o
            [i \in DOMAIN res |-> Replace(res[i][1], <<":">>, <<>>) \o <<" ","="," ">> \o res[i][2]]),
       CsvWriteRow(<< Dashes >>) >>

\* one line through csv.reader and csv.writer (lines 266, 196-197): the same
\* fields, rejoined by commas, ended by '\r\n'
CsvCopyLine(line) ==
    IF line.k = "text"
    THEN TextLine(Join(<<",">>, Split(line.s, <<",">>)), "CRLF")
    ELSE [k |-> line.k, s |-> line.s, eol |-> "CRLF"]

(***************************************************************************)
(* The statistics header: the reader, extract_stats_from_csv (284-338)     *)
(***************************************************************************)
\* line.startswith(prefix) for a line of a file
LineStartsWith(line, prefix) == line.k = "text" /\ StartsWith(line.s, prefix)

\* lines 308-320: the parts of the STATS line that hold '=' and a float, as
\* [key, value] pairs in line order
StatsPairs(line_text) ==
    LET stats_str == Strip(Replace(Strip(line_text), <<"#"," ","S","T","A","T","S",":">>, <<>>))
        parts     == Split(stats_str, <<" ","|"," ">>)
        parsed    == [i \in DOMAIN parts |->
                        LET kv == Split(parts[i], <<"=">>)
                            value == Strip(Join(<<"=">>, Tail(kv)))
                        IN  [has |-> Len(kv) >= 2 /\ ParseFloat(value).ok,
                             key |-> Strip(kv[1]),
                             val |-> ParseFloat(value).v]]
    IN  SelectSeq(parsed, LAMBDA p : p.has)

\* stats_map[key]: the value of the last pair with that key
StatsMapHas(pairs, key) == \E i \in DOMAIN pairs : pairs[i].key = key

StatsMapGet(pairs, key) ==
    pairs[CHOOSE i \in DOMAIN pairs :
            pairs[i].key = key /\ \A j \in (i + 1)..Len(pairs) : pairs[j].key # key].val

\* lines 323-331: data, a function from the metrics found to (mean, std)
StatsData(pairs, metrics) ==
    LET found == {m \in Range(metrics) :
                    StatsMapHas(pairs, m \o <<" ","M","e","a","n">>) /\ StatsMapHas(pairs, m \o <<" ","S","t","d">>)}
    IN  [m \in found |->
            <<StatsMapGet(pairs, m \o <<" ","M","e","a","n">>), StatsMapGet(pairs, m \o <<" ","S","t","d">>)>>]

\* a reader that goes through the whole file
StopsScanNever(line) == FALSE

\* lines 302-303: the line that ends the scan
StopsScan(line) == ~LineStartsWith(line, <<"#">>)

\* line 306: the line the statistics are read from
IsStatsLine(line) == LineStartsWith(line, <<"#"," ","S","T","A","T","S",":">>)

\* lines 299-338: the scan from the top of the file
RECURSIVE ScanHeader(_, _, _)
ScanHeader(lines, i, metrics) ==
    IF i > Len(lines) THEN StatsData(<<>>, metrics)
    ELSE IF StopsScan(lines[i]) THEN StatsData(<<>>, metrics)
    ELSE IF IsStatsLine(lines[i])
         THEN StatsData(StatsPairs(lines[i].s), metrics)
    ELSE ScanHeader(lines, i + 1, metrics)

\* files: the file system; a missing file gives the empty result (line 333)
extract_stats_from_csv(files, file_path, metrics) ==
    IF file_path \notin DOMAIN files THEN StatsData(<<>>, metrics)
    ELSE ScanHeader(files[file_path], 1, metrics)

(***************************************************************************)
(* Bounds and input pools                                                  *)
(***************************************************************************)
\* files the folder starts with, at most
MaxFiles == 2

\* configurations in SEARCH_CONFIGS, at most
MaxConfigs == 2

\* a raw field that is not a number (coerced to NaN by pd.to_numeric)
RawGarbage == 888888888

RawHeader == TextLine(<<"#","F","r","a","m","e"," ","E","E","L","E","C"," ","E","V","D","W">>, "LF")

RawFile(rows) == <<RawHeader>> \o [i \in DOMAIN rows |-> RowLine(rows[i], "LF")]

\* a file that cannot be decoded as text
BinaryFile == << [k |-> "bin", s |-> <<>>, eol |-> "LF"] >>

Config(name, and_terms, or_groups, not_terms) ==
    [NAME |-> name, AND |-> and_terms, OR_GROUPS |-> or_groups, NOT |-> not_terms]

\* configurations a run may be given (lines 100-117 fix 16 of this shape)
ConfigFe104 == Config(<<"F","e","-","1","0","4">>, << <<"1","0","4">> >>, << << <<"F","E">> >> >>, <<>>)

ConfigGa104 == Config(<<"G","a","-","1","0","4">>, << <<"1","0","4">> >>, << << <<"_","G","A","_">> >> >>, << <<"b","a","d">> >>)

ConfigFeAB == Config(<<"F","e","-","A","B">>, << <<"1","0","4">> >>, << << <<"B","_">>, <<"q">>, <<"A","_","F","E">> >> >>, <<>>)

ConfigGaB == Config(<<"G","a","-","B">>, << <<"1","0","4">> >>, << << <<"B","_">>, <<"q">>, <<"G","A">> >> >>, <<>>)

ConfigPool == {ConfigFe104, ConfigGa104, ConfigFeAB, ConfigGaB}

\* the ordered lists of configurations with distinct names
ConfigLists ==
    UNION {{cs \in [1..n -> ConfigPool] :
                \A i, j \in 1..n : i # j => cs[i].NAME # cs[j].NAME} : n \in 1..MaxConfigs}

\* lines 219-220: the path of a configuration's Aggregated Table
OutputPath(config) == get_descriptive_name(config) \o <<"_","S","T","A","T","S",".","c","s","v">>

FrameA == DataFrame(<<"Frame", EELEC_COL, EVDW_COL, ETOTAL_COL>>,
                    << <<0, -100, -20, -120>>, <<1, -120, -30, -150>> >>)

\* files the folder may hold when the pipeline starts
FilePool ==
    { [path |-> <<"A","_","F","E","_","1","0","4",".","d","a","t">>, content |-> RawFile(<< <<0, -100, -20>>, <<1, -120, -30>> >>)],
      [path |-> <<"B","_","F","E","_","1","0","4",".","d","a","t">>, content |-> RawFile(<< <<0, -110, -25>> >>)],
      [path |-> <<"d","o","c","k","_","l","i","g","_","G","A","_","1","0","4",".","d","a","t">>,
       content |-> RawFile(<< <<0, -110, -25>>, <<1, -111, RawGarbage>> >>)],
      [path |-> <<"b","a","d","_","F","E","_","1","0","4",".","d","a","t">>, content |-> BinaryFile],
      \* a table of another kind: none of the required columns
      [path |-> <<"o","t","h","e","r","_","F","E","_","1","0","4",".","c","s","v">>,
       content |-> ToCsvLines(DataFrame(<<"Frame">>, << <<0>> >>))],
      \* an Aggregated Table left by an earlier run
      [path |-> OutputPath(ConfigFe104),
       content |-> AggHeaderLines(ConfigFe104, AggResults(FrameA))
                    \o [i \in DOMAIN ToCsvLines(FrameA) |-> CsvCopyLine(ToCsvLines(FrameA)[i])]] }

Folders ==
    {[p \in {f.path : f \in S} |-> (CHOOSE f \in S : f.path = p).content] :
        S \in {T \in SUBSET FilePool : Cardinality(T) <= MaxFiles}}

\* metrics the header reader is asked for (line 18 fixes the first)
MetricChoices == { <<EELEC, EVDW>>, <<EELEC, EVDW, ETOTAL>> }

(***************************************************************************)
(* Inputs of the pure functions                                            *)
(***************************************************************************)
\* characters of a file name, at most
MaxNameLen == 3

\* terms of a required-term list, at most
MaxTerms == 2

\* items of an alternative group or of the excluded-term list, at most
MaxItems == 4

FileChars == {"h", "W", "1"}

FileNames == UNION {[1..n -> FileChars] : n \in 0..MaxNameLen}

MatchTerms == { <<"H","w">>, <<"W">>, <<"1">> }

TermLists == UNION {[1..n -> MatchTerms] : n \in 0..MaxTerms}

MatchConfigs ==
    { Config(<<"F","e","-","q">>, a, g, n) :
        a \in TermLists,
        g \in { <<>>, << <<>> >>, << << <<"h","W">> >> >>, << << <<"1">>, <<"w">> >> >>,
                << << <<"h">> >>, << <<"1","1">>, <<"H","W">> >> >> },
        n \in { <<>>, << <<"w","H">> >>, << <<"1","h">>, <<"h","h">> >> } }

\* items of the label inputs: letter i of the pool and a tag of the list
PoolLetters == <<"a", "b", "f", "g", "h", "k", "m", "q">>

Items(tag, n) == [i \in 1..n |-> <<PoolLetters[i], tag>>]

LabelConfigs ==
    { Config(nm, a, g, Items("-", n)) :
        nm \in { <<"F","e","-","q">>, <<"G","a","-","q">> },
        a \in { <<>>, << <<"H"," ","W">> >> },
        g \in {<<>>} \cup { <<Items("x", i)>> : i \in 0..MaxItems }
                \cup { <<Items("x", i), Items(".", j)>> : i \in 2..3, j \in 0..MaxItems },
        n \in 0..MaxItems }

(***************************************************************************)
(* State                                                                   *)
(***************************************************************************)
VARIABLES
    pc,               \* the statement the pipeline is at
    status,           \* "running", "interrupted" (killed) or "raised" (uncaught error)
    fs,               \* the folder: path -> lines
    configs,          \* SEARCH_CONFIGS
    lie_files,        \* process_lie_files: the .dat listing
    lie_index,        \* process_lie_files: position in lie_files
    df,               \* the table being converted / analysed
    converted,        \* .dat files reported "successfully saved" (history)
    filtered_files,   \* the files the current filter selected
    file_index,       \* analyze_filtered_csvs: position in filtered_files
    stats_raised,     \* per-file tables whose statistics step raised (history)
    all_csv_files,    \* analyze_and_combine_csvs: the .csv listing
    config_index,     \* analyze_and_combine_csvs: position in SEARCH_CONFIGS
    df_combined,      \* analyze_and_combine_csvs: the concatenated table
    results,          \* the [label, value] list of the current table
    generated_files,  \* analyze_and_combine_csvs: NAME -> path
    rw,               \* the header rewrite in progress
    out_before,       \* what the output path held when the configuration began (history)
    extracted,        \* the last result of extract_stats_from_csv
    filename,         \* argument of matches_boolean_query
    config,           \* argument of both pure functions
    matched,          \* result of matches_boolean_query
    label,            \* result of get_descriptive_name
    read_pos,         \* extract_stats_from_csv: lines taken from the file so far
    plot_groups,      \* generate_bar_chart: the Plot Bins
    metrics_to_plot,  \* generate_bar_chart: the metrics
    group_index,      \* generate_bar_chart: position in plot_groups
    name_index,       \* generate_bar_chart: position in the bin's CONFIG_NAMES
    x_labels,         \* generate_bar_chart: one label per bin gone through
    data_points,      \* generate_bar_chart: one group_data or None per bin
    group_data,       \* generate_bar_chart: bar key -> [mean, std] of the current bin
    is_group_valid,   \* generate_bar_chart: the current bin passed its checks so far
    valid_data_points, \* generate_bar_chart: data_points without the None
    valid_x_labels,   \* generate_bar_chart: the labels of the bins kept
    figure,           \* the figure drawn: tick labels and bars
    saved_images,     \* the image files saved, in order
    chart_report      \* what generate_bar_chart reported when it returned

chartVars == <<plot_groups, metrics_to_plot, group_index, name_index, x_labels, data_points,
               group_data, is_group_valid, valid_data_points, valid_x_labels, figure,
               saved_images, chart_report>>

vars == <<pc, status, fs, configs, lie_files, lie_index, df, converted, filtered_files,
          file_index, stats_raised, all_csv_files, config_index, df_combined, results,
          generated_files, rw, out_before, extracted, filename, config, matched, label,
          read_pos, chartVars>>

queryVars == <<filename, config, matched, label>>

pipeVars == <<status, fs, configs, lie_files, lie_index, df, converted, filtered_files,
              file_index, stats_raised, all_csv_files, config_index, df_combined, results,
              generated_files, rw, out_before, extracted>>

EmptyDf == DataFrame(<<>>, <<>>)

NoRw == [owner |-> "none", phase |-> "idle", target |-> <<>>, tmp |-> <<>>,
         header |-> <<>>, orig |-> <<>>]

NoFile == [exists |-> FALSE, content |-> <<>>]

NoExtract == [path |-> <<>>, metrics |-> <<>>, data |-> <<>>]

NoConfig == Config(<<>>, <<>>, <<>>, <<>>)

PipeIdle ==
    /\ status = "running"
    /\ lie_files = <<>>
    /\ lie_index = 0
    /\ df = EmptyDf
    /\ converted = {}
    /\ filtered_files = <<>>
    /\ file_index = 0
    /\ stats_raised = {}
    /\ all_csv_files = <<>>
    /\ config_index = 0
    /\ df_combined = EmptyDf
    /\ results = <<>>
    /\ generated_files = <<>>
    /\ rw = NoRw
    /\ out_before = NoFile
    /\ extracted = NoExtract

QueryIdle ==
    /\ filename = <<>>
    /\ config = NoConfig
    /\ matched = "none"
    /\ label = <<>>

NoFigure == [drawn |-> FALSE, tick_labels |-> <<>>, bars |-> <<>>]

ChartIdle ==
    /\ plot_groups = <<>>
    /\ metrics_to_plot = <<>>
    /\ group_index = 0
    /\ name_index = 0
    /\ x_labels = <<>>
    /\ data_points = <<>>
    /\ group_data = <<>>
    /\ is_group_valid = TRUE
    /\ valid_data_points = <<>>
    /\ valid_x_labels = <<>>
    /\ figure = NoFigure
    /\ saved_images = <<>>
    /\ chart_report = "none"

\* the pipeline: a folder and a list of configurations, nothing run yet
Init ==
    /\ pc = "pre_start"
    /\ fs \in Folders
    /\ configs \in ConfigLists
    /\ PipeIdle
    /\ QueryIdle
    /\ read_pos = 0
    /\ ChartIdle

\* the pure functions: a file name and a configuration, nothing called yet
InitQuery ==
    /\ pc = "query_start"
    /\ fs = <<>>
    /\ configs = <<>>
    /\ PipeIdle
    /\ \/ filename \in FileNames /\ config \in MatchConfigs
       \/ filename \in { <<"a","-","_","b",".">> } /\ config \in LabelConfigs
    /\ matched = "none"
    /\ label = <<>>
    /\ read_pos = 0
    /\ ChartIdle

(***************************************************************************)
(* The pure functions as calls (SpecQuery)                                 *)
(***************************************************************************)
CallMatches ==
    /\ pc = "query_start"
    /\ matched' = IF matches_boolean_query(filename, config) THEN "yes" ELSE "no"
    /\ pc' = "query_matched"
    /\ UNCHANGED <<filename, config, label, fs, configs>>
    /\ UNCHANGED pipeVars
    /\ UNCHANGED <<read_pos, chartVars>>

CallDescriptiveName ==
    /\ pc = "query_matched"
    /\ label' = get_descriptive_name(config)
    /\ pc' = "query_done"
    /\ UNCHANGED <<filename, config, matched, fs, configs>>
    /\ UNCHANGED pipeVars
    /\ UNCHANGED <<read_pos, chartVars>>

NextQuery == CallMatches \/ CallDescriptiveName

SpecQuery == InitQuery /\ [][NextQuery]_vars

(***************************************************************************)
(* Stage 1, process_lie_files (prestep2, lines 13-83)                      *)
(***************************************************************************)
\* pd.read_csv(lie_file, sep=r"\s+", skiprows=1, names=...) raises on a file
\* that is not text
ReadRawRaises(lines) == \E i \in DOMAIN lines : lines[i].k = "bin"

\* pd.to_numeric(..., errors='coerce')
ToNumeric(v) == IF v = RawGarbage THEN NaN ELSE v

\* the sum of two columns' values: missing propagates
AddValues(a, b) == IF a = NaN \/ b = NaN THEN NaN ELSE a + b

\* lines 47-64: the first line skipped, the columns renamed, [ETOTAL] added
EtotalOfEelec(e, v) == e

Etotal(e, v) == AddValues(e, v)

ConvertFrame(lines) ==
    LET raw == Tail(lines)
    IN  DataFrame(<<"Frame", EELEC_COL, EVDW_COL, ETOTAL_COL>>,
            [i \in DOMAIN raw |->
                <<raw[i].s[1], ToNumeric(raw[i].s[2]), ToNumeric(raw[i].s[3]),
                  Etotal(ToNumeric(raw[i].s[2]), ToNumeric(raw[i].s[3]))>>])

\* lines 67-68: base_name + ".csv"
CsvPathOf(lie_file) == SplitExtBase(lie_file) \o DotCsv

\* line 97
keywords_similitude == << <<"D","O","C","K">>, <<"L","I","G">> >>

\* line 116: all(keyword.lower() in file_name.lower() ...)
NoKeywordFilter(file_name) == TRUE

HasAllKeywords(file_name) ==
    \A k \in DOMAIN keywords_similitude :
        Contains(Lower(file_name), Lower(keywords_similitude[k]))

\* the loop of lines 38-76 moves to the next .dat file, or on to part 2
NextLieFile ==
    IF lie_index < Len(lie_files)
    THEN /\ lie_index' = lie_index + 1
         /\ pc' = "pre_convert"
    ELSE /\ lie_index' = 0
         /\ pc' = "pre_part2"

\* lines 29-36
P_Glob ==
    /\ pc = "pre_start" /\ status = "running"
    /\ lie_files' \in GlobListings(fs, DotDat)
    /\ IF lie_files' = <<>>
       THEN pc' = "pre_part2" /\ lie_index' = 0
       ELSE pc' = "pre_convert" /\ lie_index' = 1
    /\ UNCHANGED <<status, fs, configs, df, converted, filtered_files, file_index,
                   stats_raised, all_csv_files, config_index, df_combined, results,
                   generated_files, rw, out_before, extracted>>
    /\ UNCHANGED queryVars
    /\ UNCHANGED <<read_pos, chartVars>>

\* lines 41-68 and 74-76: read and convert one .dat file, or log and go on
P_Convert ==
    /\ pc = "pre_convert" /\ status = "running"
    /\ IF ReadRawRaises(fs[lie_files[lie_index]])
       THEN /\ NextLieFile
            /\ df' = df
       ELSE /\ df' = ConvertFrame(fs[lie_files[lie_index]])
            /\ pc' = "pre_to_csv"
            /\ lie_index' = lie_index
    /\ UNCHANGED <<status, fs, configs, lie_files, converted, filtered_files, file_index,
                   stats_raised, all_csv_files, config_index, df_combined, results,
                   generated_files, rw, out_before, extracted>>
    /\ UNCHANGED queryVars
    /\ UNCHANGED <<read_pos, chartVars>>

\* line 71, df.to_csv: the file is created or truncated ...
P_ToCsvOpen ==
    /\ pc = "pre_to_csv" /\ status = "running"
    /\ fs' = WriteFile(fs, CsvPathOf(lie_files[lie_index]), <<>>)
    /\ pc' = "pre_to_csv_write"
    /\ UNCHANGED <<status, configs, lie_files, lie_index, df, converted, filtered_files,
                   file_index, stats_raised, all_csv_files, config_index, df_combined,
                   results, generated_files, rw, out_before, extracted>>
    /\ UNCHANGED queryVars
    /\ UNCHANGED <<read_pos, chartVars>>

\* ... and filled (lines 71-72)
P_ToCsvWrite ==
    /\ pc = "pre_to_csv_write" /\ status = "running"
    /\ fs' = WriteFile(fs, CsvPathOf(lie_files[lie_index]), ToCsvLines(df))
    /\ converted' = converted \cup {lie_files[lie_index]}
    /\ df' = EmptyDf
    /\ NextLieFile
    /\ UNCHANGED <<status, configs, lie_files, filtered_files, file_index, stats_raised,
                   all_csv_files, config_index, df_combined, results, generated_files,
                   rw, out_before, extracted>>
    /\ UNCHANGED queryVars
    /\ UNCHANGED <<read_pos, chartVars>>

(***************************************************************************)
(* Stage 1, analyze_filtered_csvs (prestep2, lines 86-205)                 *)
(***************************************************************************)
\* the loop of lines 129-205 moves to the next filtered file, or returns
NextFilteredFile ==
    IF file_index < Len(filtered_files)
    THEN /\ file_index' = file_index + 1
         /\ filtered_files' = filtered_files
         /\ pc' = "pre_stats"
    ELSE /\ file_index' = 0
         /\ filtered_files' = <<>>
         /\ pc' = "pre_done"

\* lines 102-125: list the .csv files and keep those with every keyword
P_FilterCsvs ==
    /\ pc = "pre_part2" /\ status = "running"
    /\ \E csv_files \in GlobListings(fs, DotCsv) :
        LET kept == SelectSeq(csv_files, HasAllKeywords)
        IN  IF kept = <<>>
            THEN /\ pc' = "pre_done"
                 /\ UNCHANGED <<filtered_files, file_index>>
            ELSE /\ filtered_files' = kept
                 /\ file_index' = 1
                 /\ pc' = "pre_stats"
    /\ UNCHANGED <<status, fs, configs, lie_files, lie_index, df, converted, stats_raised,
                   all_csv_files, config_index, df_combined, results, generated_files,
                   rw, out_before, extracted>>
    /\ UNCHANGED queryVars
    /\ UNCHANGED <<read_pos, chartVars>>

\* lines 133-180: load one table, compute its statistics, prepare the header
P_Stats ==
    /\ pc = "pre_stats" /\ status = "running"
    /\ LET csv_file == filtered_files[file_index]
           res == FileResults(ReadCsv(fs[csv_file]))
       IN  IF ReadCsvRaises(fs[csv_file]) \/ res = <<>>
           THEN /\ NextFilteredFile
                /\ stats_raised' = IF ReadCsvRaises(fs[csv_file])
                                   THEN stats_raised \cup {csv_file} ELSE stats_raised
                /\ UNCHANGED <<results, rw>>
           ELSE /\ results' = res
                /\ rw' = [owner |-> "pre", phase |-> "open", target |-> csv_file,
                          tmp |-> csv_file \o DotTmp,
                          header |-> FileHeaderLines(csv_file, res), orig |-> <<>>]
                /\ pc' = "rw_open"
                /\ UNCHANGED <<filtered_files, file_index, stats_raised>>
    /\ UNCHANGED <<status, fs, configs, lie_files, lie_index, df, converted,
                   all_csv_files, config_index, df_combined, generated_files,
                   out_before, extracted>>
    /\ UNCHANGED queryVars
    /\ UNCHANGED <<read_pos, chartVars>>

\* lines 203-205: an OSError on opening the temporary file is caught and logged
P_StatsError ==
    /\ pc = "rw_open" /\ status = "running" /\ rw.owner = "pre"
    /\ stats_raised' = stats_raised \cup {rw.target}
    /\ rw' = NoRw
    /\ results' = <<>>
    /\ NextFilteredFile
    /\ UNCHANGED <<status, fs, configs, lie_files, lie_index, df, converted,
                   all_csv_files, config_index, df_combined, generated_files,
                   out_before, extracted>>
    /\ UNCHANGED queryVars
    /\ UNCHANGED <<read_pos, chartVars>>

(***************************************************************************)
(* The header rewrite (aggregator lines 258-269, prestep2 lines 184-200)   *)
(***************************************************************************)
\* the file the header and the copied content are written to: temp_file
RewriteDestinationInPlace(r) == r.target

RewriteDestination(r) == r.tmp

\* open(target, 'r') and open(temp_file, 'w'): the temporary file is created empty
RewriteOpen ==
    /\ pc = "rw_open" /\ status = "running"
    /\ rw' = [rw EXCEPT !.phase = "writing", !.orig = fs[rw.target]]
    /\ fs' = WriteFile(fs, RewriteDestination(rw), <<>>)
    /\ pc' = "rw_header"
    /\ UNCHANGED <<status, configs, lie_files, lie_index, df, converted, filtered_files,
                   file_index, stats_raised, all_csv_files, config_index, df_combined,
                   results, generated_files, out_before, extracted>>
    /\ UNCHANGED queryVars
    /\ UNCHANGED <<read_pos, chartVars>>

\* the header lines are written
RewriteHeader ==
    /\ pc = "rw_header" /\ status = "running"
    /\ fs' = WriteFile(fs, RewriteDestination(rw), fs[RewriteDestination(rw)] \o rw.header)
    /\ pc' = "rw_copy"
    /\ UNCHANGED <<status, configs, lie_files, lie_index, df, converted, filtered_files,
                   file_index, stats_raised, all_csv_files, config_index, df_combined,
                   results, generated_files, rw, out_before, extracted>>
    /\ UNCHANGED queryVars
    /\ UNCHANGED <<read_pos, chartVars>>

\* the original content is copied through csv.reader and csv.writer
RewriteCopy ==
    /\ pc = "rw_copy" /\ status = "running"
    /\ fs' = WriteFile(fs, RewriteDestination(rw),
                fs[RewriteDestination(rw)]
                    \o [i \in DOMAIN fs[rw.target] |-> CsvCopyLine(fs[rw.target][i])])
    /\ pc' = "rw_replace"
    /\ UNCHANGED <<status, configs, lie_files, lie_index, df, converted, filtered_files,
                   file_index, stats_raised, all_csv_files, config_index, df_combined,
                   results, generated_files, rw, out_before, extracted>>
    /\ UNCHANGED queryVars
    /\ UNCHANGED <<read_pos, chartVars>>

\* os.replace(temp_file, target); the per-file writer goes on to its next file
RewriteReplace ==
    /\ pc = "rw_replace" /\ status = "running"
    /\ fs' = ReplaceFile(fs, rw.tmp, rw.target)
    /\ rw' = [rw EXCEPT !.phase = "replaced"]
    /\ IF rw.owner = "agg"
       THEN /\ pc' = "agg_record"
            /\ UNCHANGED <<filtered_files, file_index>>
       ELSE NextFilteredFile
    /\ UNCHANGED <<status, configs, lie_files, lie_index, df, converted, stats_raised,
                   all_csv_files, config_index, df_combined, results, generated_files,
                   out_before, extracted>>
    /\ UNCHANGED queryVars
    /\ UNCHANGED <<read_pos, chartVars>>

(***************************************************************************)
(* Stage 2, analyze_and_combine_csvs (lines 91-278)                        *)
(***************************************************************************)
\* line 167
required_cols == <<EELEC_COL, EVDW_COL, ETOTAL_COL>>

\* lines 163-178: the tables of the group that load, are not empty and have a
\* required column; a file that cannot be read is logged and left out
LoadsValid(files, f) ==
    /\ ~ReadCsvRaises(files[f])
    /\ ReadCsv(files[f]).rows # <<>>
    /\ \E c \in DOMAIN required_cols : HasCol(ReadCsv(files[f]), required_cols[c])

ValidFramesAllOrNone(files, paths) ==
    IF \A i \in DOMAIN paths : LoadsValid(files, paths[i])
    THEN [i \in DOMAIN paths |-> ReadCsv(files[paths[i]])]
    ELSE <<>>

ValidFrames(files, paths) ==
    LET ok == SelectSeq(paths, LAMBDA f : LoadsValid(files, f))
    IN  [i \in DOMAIN ok |-> ReadCsv(files[ok[i]])]

\* line 144 over the listing: the files of the configuration's group
GroupOf(listing, cfg) ==
    SelectSeq(listing, LAMBDA f : matches_boolean_query(f, cfg))

FileState(files, path) ==
    IF path \in DOMAIN files THEN [exists |-> TRUE, content |-> files[path]] ELSE NoFile

\* a 'return' in place of the 'continue' of lines 151, 182 and 188
NextConfigStop ==
    /\ filtered_files' = <<>>
    /\ df_combined' = EmptyDf
    /\ results' = <<>>
    /\ config_index' = config_index
    /\ pc' = "agg_done"

\* the loop of lines 133-276 moves to the next configuration, or returns
NextConfig ==
    /\ filtered_files' = <<>>
    /\ df_combined' = EmptyDf
    /\ results' = <<>>
    /\ IF config_index < Len(configs)
       THEN /\ config_index' = config_index + 1
            /\ pc' = "agg_filter"
       ELSE /\ config_index' = config_index
            /\ pc' = "agg_done"

\* lines 120-130: list the .csv files; none: return {}
A_Glob ==
    /\ pc = "pre_done" /\ status = "running"
    /\ all_csv_files' \in GlobListings(fs, DotCsv)
    /\ generated_files' = <<>>
    /\ rw' = NoRw
    /\ results' = <<>>
    /\ IF all_csv_files' = <<>>
       THEN pc' = "agg_done" /\ config_index' = 0
       ELSE pc' = "agg_filter" /\ config_index' = 1
    /\ UNCHANGED <<status, fs, configs, lie_files, lie_index, df, converted, filtered_files,
                   file_index, stats_raised, df_combined, out_before, extracted>>
    /\ UNCHANGED queryVars
    /\ UNCHANGED <<read_pos, chartVars>>

\* lines 139-151: filter the listing; no file: skip the configuration
A_Filter ==
    /\ pc = "agg_filter" /\ status = "running"
    /\ rw' = NoRw
    /\ LET cfg == configs[config_index]
           ff  == GroupOf(all_csv_files, cfg)
       IN  IF ff = <<>>
           THEN /\ NextConfig
                /\ out_before' = NoFile
           ELSE /\ filtered_files' = ff
                /\ out_before' = FileState(fs, OutputPath(cfg))
                /\ pc' = "agg_combine"
                /\ UNCHANGED <<config_index, df_combined, results>>
    /\ UNCHANGED <<status, fs, configs, lie_files, lie_index, df, converted, file_index,
                   stats_raised, all_csv_files, generated_files, extracted>>
    /\ UNCHANGED queryVars
    /\ UNCHANGED <<read_pos, chartVars>>

\* lines 160-188: load and concatenate; nothing valid: skip the configuration
A_Combine ==
    /\ pc = "agg_combine" /\ status = "running"
    /\ LET dataframes == ValidFrames(fs, filtered_files)
       IN  IF dataframes = <<>>
           THEN NextConfig
           ELSE /\ df_combined' = Concat(dataframes)
                /\ pc' = "agg_stats"
                /\ UNCHANGED <<filtered_files, config_index, results>>
    /\ UNCHANGED <<status, fs, configs, lie_files, lie_index, df, converted, file_index,
                   stats_raised, all_csv_files, generated_files, rw, out_before, extracted>>
    /\ UNCHANGED queryVars
    /\ UNCHANGED <<read_pos, chartVars>>

\* lines 199-215
A_Stats ==
    /\ pc = "agg_stats" /\ status = "running"
    /\ results' = AggResults(df_combined)
    /\ pc' = "agg_to_csv"
    /\ UNCHANGED <<status, fs, configs, lie_files, lie_index, df, converted, filtered_files,
                   file_index, stats_raised, all_csv_files, config_index, df_combined,
                   generated_files, rw, out_before, extracted>>
    /\ UNCHANGED queryVars
    /\ UNCHANGED <<read_pos, chartVars>>

\* lines 219-223, df_combined.to_csv(output_csv_file): the output path is
\* created or truncated ...
A_ToCsvOpen ==
    /\ pc = "agg_to_csv" /\ status = "running"
    /\ fs' = WriteFile(fs, OutputPath(configs[config_index]), <<>>)
    /\ pc' = "agg_to_csv_write"
    /\ UNCHANGED <<status, configs, lie_files, lie_index, df, converted, filtered_files,
                   file_index, stats_raised, all_csv_files, config_index, df_combined,
                   results, generated_files, rw, out_before, extracted>>
    /\ UNCHANGED queryVars
    /\ UNCHANGED <<read_pos, chartVars>>

\* ... and filled; lines 226-254: with statistics, the header is prepared
A_ToCsvWrite ==
    /\ pc = "agg_to_csv_write" /\ status = "running"
    /\ LET cfg == configs[config_index]
           out == OutputPath(cfg)
       IN  /\ fs' = WriteFile(fs, out, ToCsvLines(df_combined))
           /\ IF results # <<>>
              THEN /\ rw' = [owner |-> "agg", phase |-> "open", target |-> out,
                             tmp |-> out \o DotTmp,
                             header |-> AggHeaderLines(cfg, results), orig |-> <<>>]
                   /\ pc' = "rw_open"
                   /\ UNCHANGED <<filtered_files, config_index, df_combined, results>>
              ELSE /\ NextConfig
                   /\ rw' = rw
    /\ UNCHANGED <<status, configs, lie_files, lie_index, df, converted, file_index,
                   stats_raised, all_csv_files, generated_files, out_before, extracted>>
    /\ UNCHANGED queryVars
    /\ UNCHANGED <<read_pos, chartVars>>

\* line 273: generated_files[config['NAME']] = output_csv_file
RecordedPath(cfg) == OutputPath(cfg)

A_Record ==
    /\ pc = "agg_record" /\ status = "running"
    /\ LET cfg == configs[config_index]
       IN  generated_files' =
               [n \in DOMAIN generated_files \cup {cfg.NAME} |->
                    IF n = cfg.NAME THEN RecordedPath(cfg) ELSE generated_files[n]]
    /\ rw' = NoRw
    /\ NextConfig
    /\ UNCHANGED <<status, fs, configs, lie_files, lie_index, df, converted, file_index,
                   stats_raised, all_csv_files, out_before, extracted>>
    /\ UNCHANGED queryVars
    /\ UNCHANGED <<read_pos, chartVars>>

\* the statements of lines 199-273 are in no try block: an error raised by
\* one of them (an OSError of to_csv, open or os.replace) ends the run
AggUnguarded ==
    \/ pc \in {"agg_stats", "agg_to_csv", "agg_to_csv_write", "agg_record"}
    \/ pc \in {"rw_open", "rw_header", "rw_copy", "rw_replace"} /\ rw.owner = "agg"

A_Raise ==
    /\ status = "running"
    /\ AggUnguarded
    /\ status' = "raised"
    /\ UNCHANGED <<pc, fs, configs, lie_files, lie_index, df, converted, filtered_files,
                   file_index, stats_raised, all_csv_files, config_index, df_combined,
                   results, generated_files, rw, out_before, extracted>>
    /\ UNCHANGED queryVars
    /\ UNCHANGED <<read_pos, chartVars>>

\* the process is killed between two steps
Interrupt ==
    /\ status = "running"
    /\ pc \notin {"pre_start", "pre_done", "agg_done"}
    /\ status' = "interrupted"
    /\ UNCHANGED <<pc, fs, configs, lie_files, lie_index, df, converted, filtered_files,
                   file_index, stats_raised, all_csv_files, config_index, df_combined,
                   results, generated_files, rw, out_before, extracted>>
    /\ UNCHANGED queryVars
    /\ UNCHANGED <<read_pos, chartVars>>

\* line 371, after the aggregator returned: the header of a table is read (the
\* call changes no file, so the model keeps the result of one call)
ExtractStats ==
    /\ pc = "agg_done" /\ status = "running"
    /\ extracted = NoExtract
    /\ \E file_path \in GlobSet(fs, DotCsv), metrics \in MetricChoices :
        extracted' = [path |-> file_path, metrics |-> metrics,
                      data |-> extract_stats_from_csv(fs, file_path, metrics)]
    /\ UNCHANGED <<pc, status, fs, configs, lie_files, lie_index, df, converted,
                   filtered_files, file_index, stats_raised, all_csv_files, config_index,
                   df_combined, results, generated_files, rw, out_before>>
    /\ UNCHANGED queryVars
    /\ UNCHANGED <<read_pos, chartVars>>

Next ==
    \/ P_Glob \/ P_Convert \/ P_ToCsvOpen \/ P_ToCsvWrite
    \/ P_FilterCsvs \/ P_Stats \/ P_StatsError
    \/ RewriteOpen \/ RewriteHeader \/ RewriteCopy \/ RewriteReplace
    \/ A_Glob \/ A_Filter \/ A_Combine \/ A_Stats \/ A_ToCsvOpen \/ A_ToCsvWrite
    \/ A_Record \/ A_Raise \/ Interrupt \/ ExtractStats

Spec == Init /\ [][Next]_vars

(***************************************************************************)
(* Properties of the pure functions (checked under SpecQuery)              *)
(***************************************************************************)
\* two characters that are the same letter, whatever their case
SameLetter(a, b) ==
    a = b \/ \E k \in DOMAIN UpperChars : {a, b} = {UpperChars[k], LowerChars[k]}

\* term occurs in name as a substring, letters compared whatever their case
OccursIn(name, term) ==
    \E off \in 0..(Len(name) - Len(term)) :
        \A i \in 1..Len(term) : SameLetter(name[off + i], term[i])

QueryContract ==
    /\ \A k \in DOMAIN config.AND : OccursIn(filename, config.AND[k])
    /\ \A g \in DOMAIN config.OR_GROUPS :
            \E k \in DOMAIN config.OR_GROUPS[g] : OccursIn(filename, config.OR_GROUPS[g][k])
    /\ \A k \in DOMAIN config.NOT : ~OccursIn(filename, config.NOT[k])

\* C1: once matches_boolean_query has returned, its result is true if and only
\* if the file name contains every AND term, at least one term of every OR
\* group and no NOT term, as substrings compared whatever the case of the
\* letters; its arguments are as they were.
C1_MatchesIffContract ==
    pc \in {"query_matched", "query_done"} =>
        /\ matched \in {"yes", "no"}
        /\ (matched = "yes") <=> QueryContract

\* C1 happens: a name accepted on all three clauses, an AND term of which
\* occurs in the name only when case is ignored
C1_Witness ==
    /\ pc = "query_matched"
    /\ matched = "yes"
    /\ config.AND # <<>> /\ config.OR_GROUPS # <<>> /\ config.NOT # <<>>
    /\ \E k \in DOMAIN config.AND : ~Contains(filename, config.AND[k])

\* the offsets at which t occurs in s
Occurrences(s, t) ==
    {off \in 0..(Len(s) - Len(t)) : SubSeq(s, off + 1, off + Len(t)) = t}

\* the items of list that show in the label are exactly its first n
ShowsFirst(list, n) ==
    \A i \in DOMAIN list : Contains(label, Sanitize(list[i])) <=> i <= n

\* the label holds one 'etc' marker per OR group longer than 2 items, and one
\* more when the NOT list is longer than limit
EtcMarkers(limit) ==
    Cardinality(Occurrences(label, <<"e","t","c">>))
        = Cardinality({g \in DOMAIN config.OR_GROUPS : Len(config.OR_GROUPS[g]) > 2})
            + (IF Len(config.NOT) > limit THEN 1 ELSE 0)

\* the call was made on a configuration whose items are all distinct
LabelInput == pc = "query_done" /\ config \in LabelConfigs

\* C9 (as amended): in the label, every OR group shows its first two items
\* only, with an 'etc' marker exactly when it has more than two; the NOT list
\* shows its first three items only, with an 'etc' marker exactly when it has
\* more than three.
C9_GroupsTwoNotThree ==
    LabelInput =>
        /\ \A g \in DOMAIN config.OR_GROUPS : ShowsFirst(config.OR_GROUPS[g], 2)
        /\ ShowsFirst(config.NOT, 3)
        /\ EtcMarkers(3)

\* C9 as stated: OR groups and the NOT list are both cut to their first two
\* items, with an 'etc' marker exactly when the list has more than two.
C9_Original ==
    LabelInput =>
        /\ \A g \in DOMAIN config.OR_GROUPS : ShowsFirst(config.OR_GROUPS[g], 2)
        /\ ShowsFirst(config.NOT, 2)
        /\ EtcMarkers(2)

\* C9 happens: a label made from an OR group of three items and a NOT list of
\* three items, the third of which shows in the label
C9_Witness ==
    /\ LabelInput
    /\ Len(config.NOT) = 3
    /\ Contains(label, Sanitize(config.NOT[3]))
    /\ \E g \in DOMAIN config.OR_GROUPS :
            Len(config.OR_GROUPS[g]) = 3 /\ ~Contains(label, Sanitize(config.OR_GROUPS[g][3]))

\* C10: the label returned by get_descriptive_name is not empty, holds only
\* word characters and hyphens, and is the label of the configuration with the
\* same AND, OR_GROUPS and NOT clauses under any other NAME.
C10_LabelWordCharsOfClauses ==
    pc = "query_done" =>
        /\ label # <<>>
        /\ \A i \in DOMAIN label :
                label[i] \in Range(UpperChars) \cup Range(LowerChars) \cup Range(DigitChars)
                                \cup {"_", "-"}
        /\ \A nm \in { <<>>, <<"F","e","-","q">>, <<"G","a","-","q">> } :
                label = get_descriptive_name(Config(nm, config.AND, config.OR_GROUPS, config.NOT))

\* C10 happens: a label made from clauses that hold a space and dots
C10_Witness ==
    /\ pc = "query_done"
    /\ \E k \in DOMAIN config.AND : \E i \in DOMAIN config.AND[k] : config.AND[k][i] = " "
    /\ \E g \in DOMAIN config.OR_GROUPS : \E k \in DOMAIN config.OR_GROUPS[g] :
            \E i \in DOMAIN config.OR_GROUPS[g][k] : config.OR_GROUPS[g][k][i] = "."
    /\ Len(label) > 11

(***************************************************************************)
(* Properties of the pipeline (checked under Spec)                         *)
(***************************************************************************)
\* analyze_and_combine_csvs has returned its mapping
Returned == pc = "agg_done" /\ status = "running"

\* the lines are those of an Aggregated Table: header first, table after
IsAggTable(lines) == Len(lines) > 5 /\ LineStartsWith(lines[1], <<"#"," ","G","R","O","U","P",":"," ">>)

\* the lines are those of a per-file table with its statistics header
IsFileTable(lines) == Len(lines) > 4 /\ LineStartsWith(lines[1], <<"#"," ","L","I","E"," ","S","T","A","T","I","S","T","I","C","S"," ","-"," ">>)

\* the configuration of the list that is called name
ConfigNamed(name) == configs[CHOOSE i \in DOMAIN configs : configs[i].NAME = name]

\* the configuration's query matches a file of the listing
MatchesSome(cfg) ==
    \E i \in DOMAIN all_csv_files : matches_boolean_query(all_csv_files[i], cfg)

\* ... a file that loads as a table with rows and a required column
MatchesSomeValid(cfg) ==
    \E i \in DOMAIN all_csv_files :
        /\ matches_boolean_query(all_csv_files[i], cfg)
        /\ all_csv_files[i] \in DOMAIN fs
        /\ LoadsValid(fs, all_csv_files[i])

\* the configuration has its entry in the mapping and its table in the folder
HasTable(cfg) ==
    /\ cfg.NAME \in DOMAIN generated_files
    /\ generated_files[cfg.NAME] = get_descriptive_name(cfg) \o <<"_","S","T","A","T","S",".","c","s","v">>
    /\ generated_files[cfg.NAME] \in DOMAIN fs
    /\ IsAggTable(fs[generated_files[cfg.NAME]])

\* C2 (as amended): when analyze_and_combine_csvs returns, every configuration
\* whose query matches at least one file of the listing that loads as a table
\* with rows and at least one required energy column has an Aggregated Table
\* at its output path and an entry for its name in the mapping.
C2_TablePerConfigWithValidFile ==
    Returned => \A i \in DOMAIN configs : MatchesSomeValid(configs[i]) => HasTable(configs[i])

\* C2 as stated: every configuration whose query matches at least one file of
\* the listing has an Aggregated Table and an entry in the mapping.
C2_Original ==
    Returned => \A i \in DOMAIN configs : MatchesSome(configs[i]) => HasTable(configs[i])

\* C2 happens: a run returned with a table for a configuration that matched a
\* loadable file and an unloadable one, and none for a configuration that
\* matched unloadable files only
C2_Witness ==
    /\ Returned
    /\ \E i \in DOMAIN configs :
        /\ MatchesSomeValid(configs[i])
        /\ HasTable(configs[i])
        /\ \E k \in DOMAIN all_csv_files :
            /\ matches_boolean_query(all_csv_files[k], configs[i])
            /\ ~LoadsValid(fs, all_csv_files[k])
    /\ \E j \in DOMAIN configs :
        /\ MatchesSome(configs[j])
        /\ ~MatchesSomeValid(configs[j])
        /\ configs[j].NAME \notin DOMAIN generated_files

\* the table computed from the configuration's group
GroupTable(cfg) == Concat(ValidFrames(fs, GroupOf(all_csv_files, cfg)))

\* C3 as stated: when analyze_and_combine_csvs returns, every entry
\* name -> path of the mapping leads to the Aggregated Table of the
\* configuration called name: the first line is '# GROUP: name', the STATS
\* line and the rows are those of that configuration's group.
C3_EntryLeadsToOwnTable ==
    Returned =>
        \A name \in DOMAIN generated_files :
            LET path == generated_files[name]
                cfg  == ConfigNamed(name)
            IN  /\ path \in DOMAIN fs
                /\ IsAggTable(fs[path])
                /\ fs[path][1].s = <<"#"," ","G","R","O","U","P",":"," ">> \o name
                /\ fs[path][4].s = StatsLine(AggResults(GroupTable(cfg)))
                /\ Bodies(SubSeq(fs[path], 6, Len(fs[path]))) = Bodies(ToCsvLines(GroupTable(cfg)))

\* the aggregator is at a statement of one configuration's processing, its
\* group selected
InConfig ==
    \/ pc \in {"agg_combine", "agg_stats", "agg_to_csv", "agg_to_csv_write", "agg_record"}
    \/ pc \in {"rw_open", "rw_header", "rw_copy", "rw_replace"} /\ rw.owner = "agg"

\* the complete new Aggregated Table of the configuration being processed
NewTable ==
    AggHeaderLines(configs[config_index], AggResults(df_combined)) \o ToCsvLines(df_combined)

\* C5 as stated: if the aggregator is interrupted while it processes a
\* configuration, the configuration's output path holds what it held before
\* the configuration was processed (a prior file, or no file) or the new
\* complete file with header and data.
C5_OutputOldOrComplete ==
    (status = "interrupted" /\ InConfig) =>
        LET out == OutputPath(configs[config_index])
        IN  \/ FileState(fs, out) = out_before
            \/ out \in DOMAIN fs /\ Bodies(fs[out]) = Bodies(NewTable)

\* C4: in the aggregator and in the per-file writer, from the opening of the
\* temporary file to the replace the target holds its original content,
\* whether the run goes on or is interrupted; after the replace the target
\* holds the header lines followed by every line of the original content and
\* the temporary file is gone.
C4_RewriteKeepsTargetWhole ==
    /\ rw.phase = "writing" =>
            /\ rw.target \in DOMAIN fs
            /\ fs[rw.target] = rw.orig
    /\ rw.phase = "replaced" =>
            /\ rw.target \in DOMAIN fs
            /\ Bodies(fs[rw.target]) = Bodies(rw.header) \o Bodies(rw.orig)
            /\ rw.tmp \notin DOMAIN fs

\* C4 happens: the run is interrupted when the temporary file holds the header
\* and part of the copy is still to be made, the target holding a table
C4_Witness ==
    /\ status = "interrupted"
    /\ pc = "rw_copy"
    /\ rw.phase = "writing"
    /\ fs[rw.tmp] = rw.header
    /\ Len(fs[rw.target]) > 1

\* the column of cols_analysis whose short label is metric
MetricColumn(metric) ==
    cols_analysis[CHOOSE i \in DOMAIN cols_analysis : cols_analysis[i].short_name = metric].df_col

\* the header reader was called on a file and gave, for each metric asked, the
\* mean and std of the rows the file holds after its skip header lines
ReadBackRows(skip) ==
    LET lines == fs[extracted.path]
        table == ReadCsv(SubSeq(lines, skip + 1, Len(lines)))
    IN  \A k \in DOMAIN extracted.metrics :
            LET m == extracted.metrics[k]
            IN  /\ m \in DOMAIN extracted.data
                /\ extracted.data[m] = << Mean4(Column(table, MetricColumn(m))),
                                          Std4(Column(table, MetricColumn(m))) >>

\* C6: extract_stats_from_csv called on an Aggregated Table returns, for every
\* metric asked, the pair (mean, std) the aggregator wrote in the STATS line:
\* the mean and the std of the table's column at 4 fractional digits (a std
\* written as nan reads back as nan).
C6_AggStatsRoundTrip ==
    (extracted # NoExtract /\ IsAggTable(fs[extracted.path])) => ReadBackRows(5)

\* C6 happens: the header of a table written by this run was read and gave a
\* negative mean and a std that is a number
C6_Witness ==
    /\ extracted # NoExtract
    /\ \E n \in DOMAIN generated_files : generated_files[n] = extracted.path
    /\ EELEC \in DOMAIN extracted.data
    /\ extracted.data[EELEC][1] < 0
    /\ extracted.data[EELEC][2] # NaN
    /\ extracted.data[EELEC][2] > 0

\* C7 as stated: the header of a per-file table has one metadata line of
\* 'label = value' pairs joined by ' | ', and extract_stats_from_csv called on
\* the table returns the written mean and std of every metric asked.
C7_FileStatsRetrievable ==
    (extracted # NoExtract /\ IsFileTable(fs[extracted.path])) =>
        /\ \E i \in 1..4 : Contains(fs[extracted.path][i].s, <<" ","|"," ">>)
        /\ ReadBackRows(4)

\* the file name holds DOCK and LIG, whatever the case of the letters
NamesDockLig(file_name) ==
    OccursIn(file_name, <<"D","O","C","K">>) /\ OccursIn(file_name, <<"L","I","G">>)

\* the path of the table made from a '.dat' file: same base name, '.csv'
TablePath(dat) == SubSeq(dat, 1, Len(dat) - 4) \o <<".","c","s","v">>

\* process_lie_files has completed
Converted == pc = "pre_done" /\ status = "running"

\* C8 (as amended): after process_lie_files completes, every '.dat' file that
\* was converted has a table with the same base name and a '.csv' extension;
\* the table carries the statistics header exactly when its file name holds
\* both keywords DOCK and LIG (case ignored) and its statistics step raised
\* no error; a table whose name lacks a keyword carries no header.
C8_TablePerDatHeaderByKeywords ==
    Converted =>
        \A dat \in converted :
            /\ TablePath(dat) \in DOMAIN fs
            /\ IsFileTable(fs[TablePath(dat)])
                    <=> (NamesDockLig(TablePath(dat)) /\ TablePath(dat) \notin stats_raised)
            /\ ~IsFileTable(fs[TablePath(dat)]) =>
                    /\ fs[TablePath(dat)] # <<>>
                    /\ fs[TablePath(dat)][1].k = "cols"

\* C8 as stated: every converted '.dat' file has a table with the same base
\* name and a '.csv' extension, and the table carries the statistics header
\* whatever its name.
C8_Original ==
    Converted =>
        \A dat \in converted :
            /\ TablePath(dat) \in DOMAIN fs
            /\ IsFileTable(fs[TablePath(dat)])

\* C8 happens: a run converted a file named with both keywords, whose table
\* has the header, and a file named without them, whose table has none
C8_Witness ==
    /\ Converted
    /\ \E dat \in converted :
        NamesDockLig(TablePath(dat)) /\ IsFileTable(fs[TablePath(dat)])
    /\ \E dat \in converted :
        ~NamesDockLig(TablePath(dat)) /\ ~IsFileTable(fs[TablePath(dat)])

\* C11: a step of the aggregator on a configuration whose query matches no
\* file of the listing writes no file, adds no entry to the mapping and moves
\* to the next configuration of the list (or returns after the last one).
C11_EmptyMatchSkipped ==
    [][ (/\ pc = "agg_filter"
         /\ status = "running" /\ status' = "running"
         /\ ~MatchesSome(configs[config_index]))
        => /\ fs' = fs
           /\ generated_files' = generated_files
           /\ IF config_index < Len(configs)
              THEN config_index' = config_index + 1 /\ pc' = "agg_filter"
              ELSE pc' = "agg_done" ]_vars

\* C11 happens: a run returned in which a configuration that matched no file
\* has no entry and no file at its output path, and a later configuration of
\* the list has its table
C11_Witness ==
    /\ Returned
    /\ \E i, j \in DOMAIN configs :
        /\ i < j
        /\ ~MatchesSome(configs[i])
        /\ configs[i].NAME \notin DOMAIN generated_files
        /\ OutputPath(configs[i]) \notin DOMAIN fs
        /\ HasTable(configs[j])

\* C15 as stated: an error raised while one configuration is handled is caught
\* and the loop goes on, so the run is never ended by an error of a
\* configuration.
C15_ErrorNeverEndsRun == ~(status = "raised" /\ InConfig)

\* the text of the STATS line of the Aggregated Table at path
StatsText(path) == fs[path][4].s

\* the run of the scenario: the listing holds the tables A_FE_104.csv and
\* B_FE_104.csv only, the list holds the configuration Fe-104 (AND 104,
\* OR-group FE, no NOT), and the run returned
Scenario ==
    /\ Returned
    /\ {all_csv_files[i] : i \in DOMAIN all_csv_files} = {<<"A","_","F","E","_","1","0","4",".","c","s","v">>, <<"B","_","F","E","_","1","0","4",".","c","s","v">>}
    /\ \E i \in DOMAIN configs : configs[i] = ConfigFe104

\* in the scenario both files are members, the Aggregated Table has 3 rows,
\* and its STATS line opens with the EELEC mean, the EELEC std and the EVDW mean
ScenarioGives(eelec_mean, eelec_std, evdw_mean) ==
    LET path == OutputPath(ConfigFe104)
    IN  /\ \A i \in DOMAIN all_csv_files : matches_boolean_query(all_csv_files[i], ConfigFe104)
        /\ HasTable(ConfigFe104)
        /\ Len(fs[path]) = 5 + 1 + 3
        /\ StartsWith(StatsText(path),
                <<"#"," ","S","T","A","T","S",":"," ","[","E","E","L","E","C","]"," ","M","e","a","n"," ","="," ">> \o eelec_mean \o <<" ","|"," ","[","E","E","L","E","C","]"," ","S","t","d"," ","="," ">> \o eelec_std
                    \o <<" ","|"," ","[","E","V","D","W","]"," ","M","e","a","n"," ","="," ">> \o evdw_mean \o <<" ","|"," ">>)

\* C16 (as amended): in the scenario the Aggregated Table has 3 rows and its
\* header gives EELEC mean -11.0000, EELEC sample standard deviation (n-1
\* divisor) 1.0000 and EVDW mean -2.5000.
C16_ScenarioSampleStdOne ==
    Scenario => ScenarioGives(<<"-","1","1",".","0","0","0","0">>, <<"1",".","0","0","0","0">>, <<"-","2",".","5","0","0","0">>)

\* C16 as stated: in the scenario the header gives EELEC mean -11.0, EELEC
\* standard deviation 0.8165 and EVDW mean -2.5.
C16_Original ==
    Scenario => ScenarioGives(<<"-","1","1",".","0","0","0","0">>, <<"0",".","8","1","6","5">>, <<"-","2",".","5","0","0","0">>)

\* C16 happens: the scenario ran and the table of Fe-104 holds the rows of
\* both files
C16_Witness ==
    /\ Scenario
    /\ HasTable(ConfigFe104)
    /\ Len(fs[OutputPath(ConfigFe104)]) = 9

\* the path is one the aggregator writes its tables to
IsAggregatorOutput(path) == \E c \in ConfigPool : path = OutputPath(c)

\* C18 as stated: the files selected as members of a configuration's group are
\* never files written by the aggregator, in this run or in an earlier one.
C18_NoOutputAmongMembers ==
    InConfig => \A i \in DOMAIN filtered_files : ~IsAggregatorOutput(filtered_files[i])

(***************************************************************************)
(* extract_stats_from_csv line by line (SpecReader)                        *)
(***************************************************************************)

MaxLines == 3

\* the one file the reader is given
ReaderPath == <<"t",".","c","s","v">>

\* lines a file handed to the reader may hold
ReaderLines ==
    << TextLine(<<"#"," ","G","R","O","U","P",":"," ","F","e","-","1","0","4">>, "LF"),
      TextLine(Dashes, "LF"),
      TextLine(StatsLine(AggResults(FrameA)), "LF"),
      TextLine(<<"#"," ","S","T","A","T","S",":"," ","[","E","E","L","E","C","]"," ","M","e","a","n"," ","="," ","-","1",".","5","0","0","0"," ","|"," ","[","E","E","L","E","C","]"," ","S","t","d"," ","="," ","0",".","2","5","0","0"," ","|"," ","[","E","V","D","W","]"," ","M","e","a","n"," ","="," ","x"," ","|"," ","[","E","V","D","W","]"," ","S","t","d"," ","="," ","0",".","1","2","5","0">>, "LF"),
      TextLine(<<"n","o","t","e">>, "LF"),
      ColsLine(<<"Frame", EELEC_COL, EVDW_COL, ETOTAL_COL>>, "LF"),
      RowLine(<<0, -100, -20, -120>>, "LF") >>

\* a file of up to MaxLines lines, as the positions of its lines in ReaderLines
ReaderPicks == UNION {[1..n -> DOMAIN ReaderLines] : n \in 0..MaxLines}

ReaderFile(pick) == [i \in DOMAIN pick |-> ReaderLines[pick[i]]]

InitReader ==
    /\ pc = "read_start"
    /\ \E pick \in ReaderPicks : fs = [p \in {ReaderPath} |-> ReaderFile(pick)]
    /\ \E metrics \in MetricChoices :
        extracted = [path |-> ReaderPath, metrics |-> metrics, data |-> <<>>]
    /\ status = "running"
    /\ configs = <<>>
    /\ lie_files = <<>>
    /\ lie_index = 0
    /\ df = EmptyDf
    /\ converted = {}
    /\ filtered_files = <<>>
    /\ file_index = 0
    /\ stats_raised = {}
    /\ all_csv_files = <<>>
    /\ config_index = 0
    /\ df_combined = EmptyDf
    /\ results = <<>>
    /\ generated_files = <<>>
    /\ rw = NoRw
    /\ out_before = NoFile
    /\ QueryIdle
    /\ read_pos = 0
    /\ ChartIdle

readerFrame == <<status, fs, configs, lie_files, lie_index, df, converted, filtered_files,
                 file_index, stats_raised, all_csv_files, config_index, df_combined, results,
                 generated_files, rw, out_before>>

\* lines 292-300: data = {} and the file is opened
R_Open ==
    /\ pc = "read_start"
    /\ extracted' = [extracted EXCEPT !.data = StatsData(<<>>, extracted.metrics)]
    /\ read_pos' = 0
    /\ pc' = IF extracted.path \in DOMAIN fs THEN "read_scan" ELSE "read_done"
    /\ UNCHANGED readerFrame
    /\ UNCHANGED queryVars
    /\ UNCHANGED chartVars

\* line 301 at the end of the file: the loop is over, data is returned (338)
R_Eof ==
    /\ pc = "read_scan"
    /\ read_pos = Len(fs[extracted.path])
    /\ pc' = "read_done"
    /\ UNCHANGED <<extracted, read_pos>>
    /\ UNCHANGED readerFrame
    /\ UNCHANGED queryVars
    /\ UNCHANGED chartVars

\* lines 301-331: one pass of the loop over the next line of the file
R_Line ==
    /\ pc = "read_scan"
    /\ read_pos < Len(fs[extracted.path])
    /\ LET line == fs[extracted.path][read_pos + 1]
       IN  /\ read_pos' = read_pos + 1
           /\ IF StopsScan(line)
              THEN pc' = "read_done" /\ UNCHANGED extracted
              ELSE IF IsStatsLine(line)
              THEN /\ extracted' = [extracted EXCEPT
                                      !.data = StatsData(StatsPairs(line.s), extracted.metrics)]
                   /\ pc' = "read_done"
              ELSE pc' = "read_scan" /\ UNCHANGED extracted
    /\ UNCHANGED readerFrame
    /\ UNCHANGED queryVars
    /\ UNCHANGED chartVars

NextReader == R_Open \/ R_Eof \/ R_Line

SpecReader == InitReader /\ [][NextReader]_vars

(***************************************************************************)
(* C17: the reader and the leading '#' lines                               *)
(***************************************************************************)

ReaderText == fs[ReaderPath]

HashLine(i) == ReaderText[i].k = "text" /\ StartsWith(ReaderText[i].s, <<"#">>)

\* the position of the first line that does not begin with '#', or one past
\* the end of the file when every line does
FirstNonHash ==
    IF \E i \in DOMAIN ReaderText : ~HashLine(i)
    THEN CHOOSE i \in DOMAIN ReaderText : ~HashLine(i) /\ \A j \in 1..(i - 1) : HashLine(j)
    ELSE Len(ReaderText) + 1

LeadingStats ==
    {i \in 1..(FirstNonHash - 1) : StartsWith(ReaderText[i].s, <<"#"," ","S","T","A","T","S",":">>)}

FirstLeadingStats == CHOOSE i \in LeadingStats : \A j \in LeadingStats : i <= j

\* C17: the reader takes no line after the first line that does not begin
\* with '#'; it returns the statistics of the first '# STATS:' line among the
\* leading '#' lines, read no further than that line, and the empty result
\* when there is no such line
C17_ReaderStopsAtFirstNonHash ==
    pc \in {"read_scan", "read_done"} =>
        /\ read_pos <= FirstNonHash
        /\ read_pos <= Len(ReaderText)
        /\ pc = "read_done" =>
            IF LeadingStats # {}
            THEN /\ read_pos = FirstLeadingStats
                 /\ extracted.data = StatsData(StatsPairs(ReaderText[FirstLeadingStats].s),
                                               extracted.metrics)
            ELSE /\ read_pos = IF FirstNonHash <= Len(ReaderText) THEN FirstNonHash
                               ELSE Len(ReaderText)
                 /\ extracted.data = <<>>

\* a '#' line, then a line of another kind, then a '# STATS:' line that would
\* have given statistics: the reader stopped at the second line, empty-handed
C17_Witness ==
    /\ pc = "read_done"
    /\ Len(ReaderText) = 3
    /\ HashLine(1) /\ ~HashLine(2)
    /\ StartsWith(ReaderText[3].s, <<"#"," ","S","T","A","T","S",":">>)
    /\ StatsData(StatsPairs(ReaderText[3].s), extracted.metrics) # <<>>
    /\ read_pos = 2
    /\ extracted.data = <<>>

(***************************************************************************)
(* generate_bar_chart (lines 340-499) step by step (SpecChart)             *)
(***************************************************************************)

MaxBins == 2

\* line 14
LIGANDS == << <<"F","e">>, <<"G","a">> >>

\* lines 377-378: the first ligand equal, whatever the case, to the part of
\* the name before its first hyphen
DetermineLigand(config_name, ligands) ==
    LET prefix == Split(config_name, <<"-">>)[1]
        same   == SelectSeq(ligands, LAMBDA L : Lower(L) = Lower(prefix))
    IN  IF same = <<>> THEN [found |-> FALSE, ligand |-> <<>>]
        ELSE [found |-> TRUE, ligand |-> same[1]]

\* lines 389-391: the statistics read are stored under ligand + metric; a
\* key already there is replaced
StoreStats(data, ligand, stats) ==
    LET new == {ligand \o m : m \in DOMAIN stats}
    IN  [key \in DOMAIN data \cup new |->
            IF key \in new
            THEN LET m == CHOOSE m \in DOMAIN stats : ligand \o m = key
                 IN  [mean |-> stats[m][1], std |-> stats[m][2]]
            ELSE data[key]]

\* a bin kept for whatever it collected, checks or no checks
KeepsGroupIfData(valid, data) == data # <<>>

\* line 394: if is_group_valid and group_data
KeepsGroup(valid, data) == valid /\ data # <<>>

\* an entry of data_points: a group_data or None
SomeData(data) == [is_none |-> FALSE, d |-> data]

NoneData == [is_none |-> TRUE, d |-> <<>>]

\* line 403
ValidData(points) ==
    LET kept == SelectSeq(points, LAMBDA dp : ~dp.is_none)
    IN  [i \in DOMAIN kept |-> kept[i].d]

\* the labels taken from the front of x_labels, one per entry kept
ValidLabelsPrefix(labels, points) == SubSeq(labels, 1, Len(ValidData(points)))

\* line 404
ValidLabels(labels, points) ==
    LET at == SelectSeq([i \in DOMAIN points |-> i], LAMBDA i : ~points[i].is_none)
    IN  [k \in DOMAIN at |-> labels[at[k]]]

\* a chart drawn whatever is left
AllDroppedNever(points) == FALSE

\* line 406: if not valid_data_points
AllDropped(points) == points = <<>>

\* line 419
PlotKeys(ligands, metrics) ==
    [n \in 1..(Len(ligands) * Len(metrics)) |->
        ligands[((n - 1) \div Len(metrics)) + 1] \o metrics[((n - 1) % Len(metrics)) + 1]]

\* a missing statistic left without a number
BarValueMissingNaN(d, key, field) == IF key \in DOMAIN d THEN d[key][field] ELSE NaN

\* lines 438-439: d.get(key, {}).get(field, 0)
BarValue(d, key, field) == IF key \in DOMAIN d THEN d[key][field] ELSE 0

\* lines 433-469: one series of bars per key, one bar per bin kept, and the
\* tick labels
Draw(labels, points, keys) ==
    [drawn |-> TRUE,
     tick_labels |-> labels,
     bars |-> [i \in DOMAIN keys |->
                [key   |-> keys[i],
                 means |-> [p \in DOMAIN points |-> BarValue(points[p], keys[i], "mean")],
                 stds  |-> [p \in DOMAIN points |-> BarValue(points[p], keys[i], "std")]]]]

\* line 496
plot_filename == <<"C","o","m","b","i","n","e","d","_","E","n","e","r","g","y","_","A","n","a","l","y","s","i","s","_","P","l","o","t",".","p","n","g">>

\* the Aggregated Table the aggregator leaves for a configuration and a
\* combined table (lines 218-270)
AggTable(cfg, frame) ==
    AggHeaderLines(cfg, AggResults(frame))
        \o [i \in DOMAIN ToCsvLines(frame) |-> CsvCopyLine(ToCsvLines(frame)[i])]

ConfigZn104 == Config(<<"Z","n","-","1","0","4">>, << <<"1","0","4">> >>, << << <<"Z","N">> >> >>, <<>>)

ChartConfigs == <<ConfigFe104, ConfigGa104, ConfigZn104>>

\* combined tables: every energy column, only EELEC, only ETOTAL
ChartFrames ==
    << FrameA,
       DataFrame(<<"Frame", EELEC_COL>>, << <<0, -100>>, <<1, -130>> >>),
       DataFrame(<<"Frame", ETOTAL_COL>>, << <<0, -120>>, <<1, -150>> >>) >>

\* which configurations the aggregator recorded, and from which table: 0 for
\* a configuration that is not in the mapping
ChartPicks ==
    {pick \in [DOMAIN ChartConfigs -> 0..Len(ChartFrames)] :
        pick[1] \in {0, 1, 2, 3} /\ pick[2] \in {0, 1, 3} /\ pick[3] \in {0, 1}}

ChartMapping(pick) ==
    [name \in {ChartConfigs[i].NAME : i \in {j \in DOMAIN pick : pick[j] # 0}} |->
        RecordedPath(CHOOSE c \in Range(ChartConfigs) : c.NAME = name)]

ChartFolder(pick) ==
    [path \in {OutputPath(ChartConfigs[i]) : i \in {j \in DOMAIN pick : pick[j] # 0}} |->
        LET i == CHOOSE j \in DOMAIN pick : pick[j] # 0 /\ OutputPath(ChartConfigs[j]) = path
        IN  AggTable(ChartConfigs[i], ChartFrames[pick[i]])]

PlotGroup(x_label, config_names) == [X_LABEL |-> x_label, CONFIG_NAMES |-> config_names]

\* Plot Bins in the manner of lines 506-539
BinPool ==
    << PlotGroup(<<"A","r","g">>, << <<"F","e","-","1","0","4">>, <<"G","a","-","1","0","4">> >>),
       PlotGroup(<<"T","r","p">>, << <<"F","e","-","1","0","4">> >>),
       PlotGroup(<<"H","i","s">>, << <<"G","a","-","1","0","4">>, <<"Z","n","-","1","0","4">> >>),
       PlotGroup(<<"M","e","t">>, <<>>) >>

\* lists of up to MaxBins different bins
PlotGroupLists ==
    {[i \in DOMAIN at |-> BinPool[at[i]]] :
        at \in {a \in UNION {[1..n -> DOMAIN BinPool] : n \in 0..MaxBins} :
                    \A i, j \in DOMAIN a : i # j => a[i] # a[j]}}

\* lines 542-545: the mapping is what the aggregator returned
InitChart ==
    /\ pc = "chart_start"
    /\ \E pick \in ChartPicks :
        /\ fs = ChartFolder(pick)
        /\ generated_files = ChartMapping(pick)
    /\ plot_groups \in PlotGroupLists
    /\ metrics_to_plot \in MetricChoices
    /\ status = "running"
    /\ configs = <<>>
    /\ lie_files = <<>>
    /\ lie_index = 0
    /\ df = EmptyDf
    /\ converted = {}
    /\ filtered_files = <<>>
    /\ file_index = 0
    /\ stats_raised = {}
    /\ all_csv_files = <<>>
    /\ config_index = 0
    /\ df_combined = EmptyDf
    /\ results = <<>>
    /\ rw = NoRw
    /\ out_before = NoFile
    /\ extracted = NoExtract
    /\ QueryIdle
    /\ read_pos = 0
    /\ group_index = 0
    /\ name_index = 0
    /\ x_labels = <<>>
    /\ data_points = <<>>
    /\ group_data = <<>>
    /\ is_group_valid = TRUE
    /\ valid_data_points = <<>>
    /\ valid_x_labels = <<>>
    /\ figure = NoFigure
    /\ saved_images = <<>>
    /\ chart_report = "none"

chartFrame == <<status, fs, configs, lie_files, lie_index, df, converted, filtered_files,
                file_index, stats_raised, all_csv_files, config_index, df_combined, results,
                generated_files, rw, out_before, extracted, read_pos, plot_groups,
                metrics_to_plot>>

\* lines 344-350
G_Start ==
    /\ pc = "chart_start"
    /\ IF generated_files = <<>>
       THEN /\ chart_report' = "no_files"
            /\ pc' = "chart_done"
            /\ UNCHANGED <<data_points, x_labels, group_index>>
       ELSE /\ data_points' = <<>>
            /\ x_labels' = <<>>
            /\ group_index' = 1
            /\ pc' = IF plot_groups = <<>> THEN "chart_filter" ELSE "chart_group"
            /\ UNCHANGED chart_report
    /\ UNCHANGED <<name_index, group_data, is_group_valid, valid_data_points,
                   valid_x_labels, figure, saved_images>>
    /\ UNCHANGED chartFrame
    /\ UNCHANGED queryVars

\* lines 355-359: the next bin is taken up
G_Group ==
    /\ pc = "chart_group"
    /\ x_labels' = Append(x_labels, plot_groups[group_index].X_LABEL)
    /\ group_data' = <<>>
    /\ is_group_valid' = TRUE
    /\ name_index' = 1
    /\ pc' = IF plot_groups[group_index].CONFIG_NAMES = <<>>
             THEN "chart_group_end" ELSE "chart_name"
    /\ UNCHANGED <<group_index, data_points, valid_data_points, valid_x_labels, figure,
                   saved_images, chart_report>>
    /\ UNCHANGED chartFrame
    /\ UNCHANGED queryVars

\* lines 362-391: one group reference of the bin
G_Name ==
    /\ pc = "chart_name"
    /\ LET names       == plot_groups[group_index].CONFIG_NAMES
           config_name == names[name_index]
       IN  IF config_name \notin DOMAIN generated_files
           THEN /\ is_group_valid' = FALSE
                /\ pc' = "chart_group_end"
                /\ UNCHANGED <<group_data, name_index>>
           ELSE LET file_path == generated_files[config_name]
                    stats     == extract_stats_from_csv(fs, file_path, metrics_to_plot)
                    found     == DetermineLigand(config_name, LIGANDS)
                IN  IF ~found.found
                    THEN /\ is_group_valid' = FALSE
                         /\ pc' = "chart_group_end"
                         /\ UNCHANGED <<group_data, name_index>>
                    ELSE /\ group_data' = StoreStats(group_data, found.ligand, stats)
                         /\ UNCHANGED is_group_valid
                         /\ IF name_index < Len(names)
                            THEN name_index' = name_index + 1 /\ pc' = "chart_name"
                            ELSE name_index' = name_index /\ pc' = "chart_group_end"
    /\ UNCHANGED <<group_index, x_labels, data_points, valid_data_points, valid_x_labels,
                   figure, saved_images, chart_report>>
    /\ UNCHANGED chartFrame
    /\ UNCHANGED queryVars

\* lines 394-398: the bin's slot of data_points
G_GroupEnd ==
    /\ pc = "chart_group_end"
    /\ data_points' = Append(data_points,
                             IF KeepsGroup(is_group_valid, group_data)
                             THEN SomeData(group_data) ELSE NoneData)
    /\ IF group_index < Len(plot_groups)
       THEN group_index' = group_index + 1 /\ pc' = "chart_group"
       ELSE group_index' = group_index /\ pc' = "chart_filter"
    /\ UNCHANGED <<name_index, x_labels, group_data, is_group_valid, valid_data_points,
                   valid_x_labels, figure, saved_images, chart_report>>
    /\ UNCHANGED chartFrame
    /\ UNCHANGED queryVars

\* lines 403-408
G_Filter ==
    /\ pc = "chart_filter"
    /\ valid_data_points' = ValidData(data_points)
    /\ valid_x_labels' = ValidLabels(x_labels, data_points)
    /\ IF AllDropped(ValidData(data_points))
       THEN chart_report' = "all_empty" /\ pc' = "chart_done"
       ELSE chart_report' = chart_report /\ pc' = "chart_plot"
    /\ UNCHANGED <<group_index, name_index, x_labels, data_points, group_data,
                   is_group_valid, figure, saved_images>>
    /\ UNCHANGED chartFrame
    /\ UNCHANGED queryVars

\* lines 413-499: the figure is drawn and saved
G_Plot ==
    /\ pc = "chart_plot"
    /\ figure' = Draw(valid_x_labels, valid_data_points, PlotKeys(LIGANDS, metrics_to_plot))
    /\ saved_images' = Append(saved_images, [name |-> plot_filename, figure |-> figure'])
    /\ chart_report' = "saved"
    /\ pc' = "chart_done"
    /\ UNCHANGED <<group_index, name_index, x_labels, data_points, group_data,
                   is_group_valid, valid_data_points, valid_x_labels>>
    /\ UNCHANGED chartFrame
    /\ UNCHANGED queryVars

NextChart == G_Start \/ G_Group \/ G_Name \/ G_GroupEnd \/ G_Filter \/ G_Plot

SpecChart == InitChart /\ [][NextChart]_vars

(***************************************************************************)
(* Claims about generate_bar_chart                                         *)
(***************************************************************************)

BinNames(g) == plot_groups[g].CONFIG_NAMES

BinLabel(g) == plot_groups[g].X_LABEL

\* every group reference of bin g is in the name-to-path mapping
Resolved(g) == \A k \in DOMAIN BinNames(g) : BinNames(g)[k] \in DOMAIN generated_files

\* the variant a group reference names: the ligand that, whatever the case,
\* is the part of the name before its first hyphen
NamesVariant(name, L) ==
    LET hyphens == {i \in DOMAIN name : name[i] = "-"}
        prefix  == IF hyphens = {} THEN name
                   ELSE SubSeq(name, 1, (CHOOSE i \in hyphens : \A j \in hyphens : i <= j) - 1)
    IN  Lower(prefix) = Lower(L)

\* the variant of every group reference of bin g is identified
Identified(g) ==
    \A k \in DOMAIN BinNames(g) : \E i \in DOMAIN LIGANDS : NamesVariant(BinNames(g)[k], LIGANDS[i])

\* what the header of the table of a resolved reference gives for the metrics
RefStats(name) == extract_stats_from_csv(fs, generated_files[name], metrics_to_plot)

\* the references of bin g that give variant L a mean and std of metric M
Contributors(g, L, M) ==
    {k \in DOMAIN BinNames(g) :
        /\ BinNames(g)[k] \in DOMAIN generated_files
        /\ NamesVariant(BinNames(g)[k], L)
        /\ M \in DOMAIN RefStats(BinNames(g)[k])}

\* some statistic was read for bin g
HasStat(g) ==
    \E i \in DOMAIN LIGANDS, m \in DOMAIN metrics_to_plot :
        Contributors(g, LIGANDS[i], metrics_to_plot[m]) # {}

\* the bin is one the chart shows
Kept(g) == Resolved(g) /\ Identified(g) /\ HasStat(g)

\* the value the bar of variant L and metric M shows for bin g: that of the
\* last reference that gives one, 0 without any (n: 1 the mean, 2 the std)
Expected(g, L, M, n) ==
    IF Contributors(g, L, M) = {} THEN 0
    ELSE LET k == CHOOSE k \in Contributors(g, L, M) : \A j \in Contributors(g, L, M) : j <= k
         IN  RefStats(BinNames(g)[k])[M][n]

\* the figure shows bin g at X position p: its label on the tick and, in
\* every series of bars, its values
ShownAt(g, p) ==
    /\ figure.drawn
    /\ p \in DOMAIN figure.tick_labels
    /\ figure.tick_labels[p] = BinLabel(g)
    /\ Len(figure.bars) = Len(LIGANDS) * Len(metrics_to_plot)
    /\ \A i \in DOMAIN LIGANDS, m \in DOMAIN metrics_to_plot :
        LET bar == figure.bars[(i - 1) * Len(metrics_to_plot) + m]
        IN  /\ bar.key = LIGANDS[i] \o metrics_to_plot[m]
            /\ Len(bar.means) = Len(figure.tick_labels)
            /\ Len(bar.stds) = Len(figure.tick_labels)
            /\ bar.means[p] = Expected(g, LIGANDS[i], metrics_to_plot[m], 1)
            /\ bar.stds[p] = Expected(g, LIGANDS[i], metrics_to_plot[m], 2)

Rendered(g) == \E p \in DOMAIN figure.tick_labels : ShownAt(g, p)

\* the image saved holds the figure drawn
ImageSaved ==
    /\ saved_images # <<>>
    /\ saved_images[Len(saved_images)] = [name |-> plot_filename, figure |-> figure]

(***************************************************************************)
(* C12: a bin with an unresolved reference                                 *)
(***************************************************************************)

\* C12: when generate_bar_chart has returned, a bin with a group reference
\* that is not in the mapping has no tick label and no bar in the figure,
\* which holds one bar per key for each bin shown and no more; every bin that
\* is valid is shown with its values in the image saved
C12_UnresolvedBinNotRendered ==
    pc = "chart_done" =>
        /\ \A g \in DOMAIN plot_groups :
            ~Resolved(g) => \A p \in DOMAIN figure.tick_labels : figure.tick_labels[p] # BinLabel(g)
        /\ \A i \in DOMAIN figure.bars :
            /\ Len(figure.bars[i].means) = Cardinality({g \in DOMAIN plot_groups : Kept(g)})
            /\ Len(figure.bars[i].stds) = Cardinality({g \in DOMAIN plot_groups : Kept(g)})
        /\ Len(figure.tick_labels) = Cardinality({g \in DOMAIN plot_groups : Kept(g)})
        /\ \A g \in DOMAIN plot_groups : Kept(g) => Rendered(g) /\ ImageSaved

\* a bin whose first reference gave statistics and whose second is not in the
\* mapping, beside a bin that is shown
C12_Witness ==
    /\ pc = "chart_done"
    /\ \E g, h \in DOMAIN plot_groups :
        /\ Len(BinNames(g)) = 2
        /\ BinNames(g)[1] \in DOMAIN generated_files
        /\ RefStats(BinNames(g)[1]) # <<>>
        /\ BinNames(g)[2] \notin DOMAIN generated_files
        /\ data_points[g].is_none
        /\ Kept(h) /\ Rendered(h) /\ ImageSaved

(***************************************************************************)
(* C13: bars of a bin without some of its statistics                       *)
(***************************************************************************)

\* the bin has a bar key without mean and std, and one with
SomeKeyMissing(g) ==
    /\ \E i \in DOMAIN LIGANDS, m \in DOMAIN metrics_to_plot :
        Contributors(g, LIGANDS[i], metrics_to_plot[m]) = {}
    /\ HasStat(g)

\* C13 (as stated): every bin whose references all resolve and whose variants
\* are all identified is shown with one bar per key, a key without mean and
\* std at height 0 and error 0, however many keys are missing
C13_Original ==
    pc = "chart_done" =>
        \A g \in DOMAIN plot_groups : (Resolved(g) /\ Identified(g)) => Rendered(g)

\* C13: every bin whose references all resolve, whose variants are all
\* identified and for which at least one statistic was read is shown with one
\* bar per key (variants x metrics); a key for which the bin has no mean and
\* std is drawn with height 0 and error 0. A bin for which no statistic at
\* all was read is dropped.
C13_BinWithSomeStatRendered ==
    pc = "chart_done" =>
        \A g \in DOMAIN plot_groups :
            /\ (Resolved(g) /\ Identified(g) /\ HasStat(g)) => Rendered(g)
            /\ (Resolved(g) /\ Identified(g) /\ ~HasStat(g)) => ~Rendered(g)

\* a bin shown with a bar of height 0 for a key it has no statistic of
C13_Witness ==
    /\ pc = "chart_done"
    /\ \E g \in DOMAIN plot_groups :
        /\ Resolved(g) /\ Identified(g) /\ SomeKeyMissing(g)
        /\ \E p \in DOMAIN figure.tick_labels, i \in DOMAIN figure.bars :
            /\ ShownAt(g, p)
            /\ figure.bars[i].key \notin DOMAIN valid_data_points[p]
            /\ figure.bars[i].means[p] = 0
            /\ figure.bars[i].stds[p] = 0

(***************************************************************************)
(* C14: no image when nothing usable remains                               *)
(***************************************************************************)

NothingUsable == generated_files = <<>> \/ \A g \in DOMAIN plot_groups : ~Kept(g)

\* C14: no image is ever saved before generate_bar_chart is at its end, and
\* never more than one; when it has returned with an empty mapping or with
\* every bin dropped, it has reported the failure, drawn no figure and saved
\* no image; otherwise it has saved exactly one image, under the fixed name,
\* holding the figure drawn
C14_ImageIffSomethingUsable ==
    /\ pc # "chart_done" => saved_images = <<>> /\ ~figure.drawn
    /\ pc = "chart_done" =>
        IF NothingUsable
        THEN /\ saved_images = <<>>
             /\ ~figure.drawn
             /\ chart_report = IF generated_files = <<>> THEN "no_files" ELSE "all_empty"
        ELSE /\ Len(saved_images) = 1
             /\ saved_images[1].name = plot_filename
             /\ saved_images[1].figure = figure
             /\ figure.drawn
             /\ chart_report = "saved"

\* a mapping with tables and bins to plot, every bin dropped: no image
C14_Witness ==
    /\ pc = "chart_done"
    /\ generated_files # <<>>
    /\ plot_groups # <<>>
    /\ \A g \in DOMAIN plot_groups : BinNames(g) # <<>> /\ data_points[g].is_none
    /\ chart_report = "all_empty"
    /\ saved_images = <<>>

(***************************************************************************)
(* C19: labels and data stay aligned                                       *)
(***************************************************************************)

\* the bins before g, and g, that were not dropped
KeptUpTo(g) == {h \in 1..g : ~data_points[h].is_none}

\* C19: once the collection loop is over, x_labels and data_points hold one
\* slot per bin, in the order of the bins; once filtered, valid_x_labels and
\* valid_data_points have one entry per bin not dropped, the k-th entry of
\* both being the label and the data of the k-th bin not dropped; and the
\* figure shows at X position k the values of that bin
C19_LabelsAndDataAligned ==
    /\ (pc \in {"chart_filter", "chart_plot"} \/ (pc = "chart_done" /\ generated_files # <<>>)) =>
        /\ Len(x_labels) = Len(plot_groups)
        /\ Len(data_points) = Len(plot_groups)
        /\ \A g \in DOMAIN plot_groups : x_labels[g] = BinLabel(g)
    /\ (pc = "chart_plot" \/ (pc = "chart_done" /\ generated_files # <<>>)) =>
        /\ Len(valid_x_labels) = Len(valid_data_points)
        /\ Len(valid_x_labels) = Cardinality({g \in DOMAIN plot_groups : ~data_points[g].is_none})
        /\ \A g \in DOMAIN plot_groups :
            ~data_points[g].is_none =>
                /\ valid_x_labels[Cardinality(KeptUpTo(g))] = BinLabel(g)
                /\ valid_data_points[Cardinality(KeptUpTo(g))] = data_points[g].d
    /\ (pc = "chart_done" /\ figure.drawn) =>
        \A g \in DOMAIN plot_groups :
            ~data_points[g].is_none => ShownAt(g, Cardinality(KeptUpTo(g)))

\* a dropped bin ahead of a bin that is shown: the second bin of the list is
\* at the first X position
C19_Witness ==
    /\ pc = "chart_done"
    /\ Len(plot_groups) = 2
    /\ Len(data_points) = 2
    /\ BinNames(1) # <<>>
    /\ data_points[1].is_none
    /\ ~data_points[2].is_none
    /\ valid_x_labels = << BinLabel(2) >>
    /\ ShownAt(2, 1)

=============================================================================
